---- MODULE Spec2Model ----
(***************************************************************************)
(* Podcast persona analyzer: the per-episode processing pipeline           *)
(* (backend/app.py, backend/services/download.py, transcribe.py, clean.py, *)
(* embeddings.py, pdfgen.py, backend/utils/state.py, paths.py) and the     *)
(* confidence-gated answer engine (backend/services/debate.py).            *)
(*                                                                         *)
(* Strings that the code inspects are sequences of tokens (characters for  *)
(* guids, words and punctuation marks for prose); file sizes are counted   *)
(* in blocks of BlockBytes bytes; similarity scores and confidences are    *)
(* fixed-point numbers in units of 1/Unit.                                 *)
(***************************************************************************)
EXTENDS Integers, Sequences, FiniteSets, TLC

VARIABLES
  manifest,  \* the manifest.json of the podcast: <<>> (no file) or <<data>>
  fs,        \* episode files: function from the paths that exist to contents
  faiss,     \* embeddings.faiss + embeddings_meta.json: <<>> or <<[vectors, metas]>>
  pdf,       \* the rendered document: <<>> or <<sections>>
  stt,       \* speech-to-text service: the jobs submitted so far
  pc,        \* position of the invoking thread inside process_podcast
  queue,     \* episodes left in the per-episode loop (snapshot of the ledger)
  dl,        \* locals of download_episode's retry loop
  markq,     \* guids left in a status-marking loop
  runs,      \* process_podcast invocations so far
  faults,    \* external events so far (process kills, lost audio files)
  io,        \* collaborator calls and file writes made by the last step
  hist,      \* per guid: the status values persisted so far, in order
  healthy,   \* no collaborator failed, nothing raised, nothing external happened
  index,     \* per podcast: its index (distances of its vectors to the query) and persona file
  llm,       \* the calls made to the text-generation service by the last request
  chain,     \* the current process_podcast run: how each chain went, retries, index rebuilt
  last       \* what the last step did

pvars == <<manifest, fs, faiss, pdf, stt, pc, queue, dl, markq, runs, faults, io, hist, healthy, index, llm, chain>>
vars == <<manifest, fs, faiss, pdf, stt, pc, queue, dl, markq, runs, faults, io, hist, healthy, index, llm, chain, last>>

\* ------------------------------------------------------------------ bounds
MaxRuns == 2
MaxFaults == 1
MaxVectors == 3
MaxPodcasts == 5
MaxLlmFailures == 1
MaxPassages == 3
MaxUpdates == 2

\* ------------------------------------------------------- program constants
MIN_FILE_SIZE == 1024
MAX_RETRIES == 3
\* transcribe.py: "if poll_count > 360" and "if poll_count > 10"
POLL_LIMIT == 360
NETWORK_ERROR_LIMIT == 10
STEM_MAX == 120

\* ----------------------------------------------------------------- helpers
Podcast == "P1"

EmptyDict == <<>>

\* dict.get(k, default)
DictGet(d, k, default) == IF k \in DOMAIN d THEN d[k] ELSE default

DictReplace(d, kw) == kw

\* dict.update(kw): the keys of kw replace or extend those of d
DictUpdate(d, kw) ==
  [k \in (DOMAIN d) \cup (DOMAIN kw) |-> IF k \in DOMAIN kw THEN kw[k] ELSE d[k]]

Min(a, b) == IF a <= b THEN a ELSE b

IsPrefix(s, t) == Len(s) <= Len(t) /\ SubSeq(t, 1, Len(s)) = s

\* pat occurs in s at position i
MatchAt(s, i, pat) == i + Len(pat) - 1 <= Len(s) /\ SubSeq(s, i, i + Len(pat) - 1) = pat

\* s contains pat as a contiguous run (Python's `pat in s`)
Contains(s, pat) == \E i \in 1..Len(s) : MatchAt(s, i, pat)

\* ------------------------------------------------------ utils/paths.py
SafeAlphabet == {"e", "p", "T", "1", "2", ".", "-", "_"}

RECURSIVE SubUnsafe(_)
\* SAFE_CHARS.sub("_", name): every maximal run of unsafe characters becomes one "_"
SubUnsafe(name) ==
  IF name = <<>> THEN <<>>
  ELSE IF Head(name) \in SafeAlphabet THEN <<Head(name)>> \o SubUnsafe(Tail(name))
  ELSE IF Len(name) > 1 /\ name[2] \notin SafeAlphabet THEN SubUnsafe(Tail(name))
  ELSE <<"_">> \o SubUnsafe(Tail(name))

RECURSIVE StripUnderscore(_)
\* str.strip("_")
StripUnderscore(s) ==
  IF s = <<>> THEN <<>>
  ELSE IF Head(s) = "_" THEN StripUnderscore(Tail(s))
  ELSE IF s[Len(s)] = "_" THEN StripUnderscore(SubSeq(s, 1, Len(s) - 1))
  ELSE s

safe_name(name) == StripUnderscore(SubUnsafe(name))

episode_paths(guid, title) ==
  LET src == IF guid # <<>> THEN guid ELSE IF title # <<>> THEN title ELSE <<"e", "p">>
      full == safe_name(src)
      stem == SubSeq(full, 1, Min(Len(full), STEM_MAX))
  IN [audio      |-> <<stem, "mp3">>,
      audio_part |-> <<stem, "mp3.part">>,
      raw        |-> <<stem, "raw.txt">>,
      clean      |-> <<stem, "clean.txt">>]

Exists(path) == path \in DOMAIN fs

\* ------------------------------------------------------ utils/state.py
\* what is left of manifest.json when write_text is cut short: not valid JSON
Torn == [torn |-> TRUE]

\* json.loads raises JSONDecodeError on the content of the file
LoadRaises == manifest # <<>> /\ "torn" \in DOMAIN manifest[1]

\* the dict load_manifest returns (to be used where LoadRaises is false)
load_manifest ==
  IF manifest # <<>> THEN manifest[1]
  ELSE [podcast_name |-> Podcast, episodes |-> <<>>]

\* position of guid in the episodes dict, 0 when it has no record
EpisodeAt(mf, guid) ==
  IF \E i \in 1..Len(mf.episodes) : mf.episodes[i].guid = guid
  THEN CHOOSE i \in 1..Len(mf.episodes) : mf.episodes[i].guid = guid
  ELSE 0

\* mf["episodes"].get(guid, {})
EpisodeRec(mf, guid) ==
  IF EpisodeAt(mf, guid) = 0 THEN EmptyDict ELSE mf.episodes[EpisodeAt(mf, guid)].rec

\* mf["episodes"][guid] = rec (a new key goes last)
SetEpisode(mf, guid, rec) ==
  LET i == EpisodeAt(mf, guid)
  IN [mf EXCEPT !.episodes =
        IF i = 0 THEN Append(@, [guid |-> guid, rec |-> rec])
        ELSE [@ EXCEPT ![i] = [guid |-> guid, rec |-> rec]]]

UpdateAlone(mf, guid, kwargs) ==
  SetEpisode([mf EXCEPT !.episodes = <<>>], guid, DictUpdate(EpisodeRec(mf, guid), kwargs))

\* the ledger update_episode_state saves: load, merge the fields, store
update_episode_state(mf, guid, kwargs) ==
  SetEpisode(mf, guid, DictUpdate(EpisodeRec(mf, guid), kwargs))

order == <<"downloaded", "transcribed", "cleaned", "embedded", "pdf">>

\* list.index(x); 0 stands for the ValueError of a value that is not in the list
ListIndex(list, x) ==
  IF \E i \in 1..Len(list) : list[i] = x
  THEN CHOOSE i \in 1..Len(list) : list[i] = x /\ \A j \in 1..(i - 1) : list[j] # x
  ELSE 0

DoneAtLeastStrict(mf, guid, stage) ==
  LET epi == EpisodeRec(mf, guid)
      a == ListIndex(order, DictGet(epi, "status", ""))
      b == ListIndex(order, stage)
  IN IF DOMAIN epi = {} THEN FALSE
     ELSE IF a = 0 \/ b = 0 THEN FALSE
     ELSE a > b

DoneAtLeastReversed(mf, guid, stage) ==
  LET epi == EpisodeRec(mf, guid)
      a == ListIndex(order, DictGet(epi, "status", ""))
      b == ListIndex(order, stage)
  IN IF DOMAIN epi = {} THEN FALSE
     ELSE IF a = 0 \/ b = 0 THEN FALSE
     ELSE a <= b

episode_done_at_least(mf, guid, stage) ==
  LET epi == EpisodeRec(mf, guid)
      a == ListIndex(order, DictGet(epi, "status", ""))
      b == ListIndex(order, stage)
  IN IF DOMAIN epi = {} THEN FALSE
     ELSE IF a = 0 \/ b = 0 THEN FALSE
     ELSE a >= b

\* ---------------------------------------------------------------- inputs
G1 == <<"e", "p", "1">>
G2 == <<"e", "p", "/", "2">>
Guids == {G1, G2}
Title(g) == IF g = G1 THEN <<"T", "1">> ELSE <<"T", "2">>

\* an audio URL: <<scheme, rest>>, or <<>> for the empty string
UrlA == <<"https://", "x/a.mp3">>
UrlB == <<"http://", "x/b.mp3">>
UrlTiny == <<"https://", "x/t.mp3">>
UrlFtp == <<"ftp://", "x/c.mp3">>
UrlEmpty == <<>>

\* what the remote host serves for a URL, in blocks of BlockBytes bytes
BlockBytes == MIN_FILE_SIZE \div 2
Source(url) ==
  CASE url = UrlA -> <<1, 2, 3>>
    [] url = UrlB -> <<4, 5>>
    [] url = UrlTiny -> <<6>>
    [] OTHER -> <<>>

\* what parse_feed returns for the feeds that may be submitted
FeedEp(g, url) == [guid |-> g, title |-> Title(g), audio_url |-> url, publish_date |-> "2024-05-01"]
Feeds ==
  {<<>>,
   <<FeedEp(G1, UrlA)>>,
   <<FeedEp(G1, UrlA), FeedEp(G2, UrlB)>>,
   <<FeedEp(G1, UrlB)>>,
   <<FeedEp(G2, UrlTiny), FeedEp(G1, UrlFtp)>>,
   <<FeedEp(G2, UrlEmpty)>>}

\* ------------------------------------------------------------ file system
FileSize(f, path) == Len(f[path]) * BlockBytes
WriteFile(f, path, content) ==
  [q \in (DOMAIN f) \cup {path} |-> IF q = path THEN content ELSE f[q]]
Unlink(f, path) == [q \in (DOMAIN f) \ {path} |-> f[q]]

\* ------------------------------------------------------------ bookkeeping
StatusIn(mf, g) == DictGet(EpisodeRec(mf, g), "status", "")

\* the ledger file is overwritten with mf
Save(mf) ==
  /\ manifest' = <<mf>>
  /\ hist' = [g \in Guids |->
                IF StatusIn(mf, g) # StatusIn(load_manifest, g)
                THEN Append(hist[g], StatusIn(mf, g)) ELSE hist[g]]

NextEpisodeAborts ==
  /\ queue' = <<>>
  /\ pc' = "embed"
  /\ dl' = <<>>

\* the per-episode loop of process_podcast moves on to the next episode
NextEpisode ==
  /\ queue' = Tail(queue)
  /\ pc' = IF Tail(queue) = <<>> THEN "embed" ELSE "download"
  /\ dl' = <<>>

\* the run's own record of an episode's chain: entered, left by an exception
\* (with the status persisted at that moment), or run to its end; `faulty`
\* when a collaborator failed during the run, `built` when the index was rebuilt
ChainFresh ==
  [outcome |-> [g \in Guids |-> "none"], status |-> [g \in Guids |-> ""],
   built |-> FALSE, faulty |-> FALSE, stage |-> "episodes"]
ChainEntered(g) == chain' = [chain EXCEPT !.outcome[g] = "attempted"]
ChainRaised(g) ==
  chain' = [chain EXCEPT !.outcome[g] = "raised", !.status[g] = StatusIn(load_manifest, g),
                         !.faulty = TRUE]
ChainDone(g) == chain' = [chain EXCEPT !.outcome[g] = "done"]

\* ------------------------------------------------------ app.py add_podcasts
RECURSIVE AssignAll(_, _)
AssignAll(mf, eps) ==
  IF eps = <<>> THEN mf
  ELSE AssignAll(SetEpisode(mf, Head(eps).guid,
                            [title |-> Head(eps).title, audio_url |-> Head(eps).audio_url,
                             publish_date |-> Head(eps).publish_date,
                             status |-> DictGet(EpisodeRec(mf, Head(eps).guid), "status", "")]),
                 Tail(eps))

RECURSIVE SetDefaults(_, _)
\* mf["episodes"].setdefault(guid, {...}) for every episode of the feed
SetDefaults(mf, eps) ==
  IF eps = <<>> THEN mf
  ELSE LET ep == Head(eps)
           fresh == [title |-> ep.title, audio_url |-> ep.audio_url,
                     publish_date |-> ep.publish_date,
                     status |-> DictGet(EpisodeRec(mf, ep.guid), "status", "")]
       IN SetDefaults(IF EpisodeAt(mf, ep.guid) = 0 THEN SetEpisode(mf, ep.guid, fresh) ELSE mf,
                      Tail(eps))

add_podcasts(feed) ==
  /\ pc = "idle"
  /\ IF LoadRaises
     THEN \* result[feed] = {"error": ...}
          /\ io' = {"parse_feed"}
          /\ last' = [op |-> "add_podcasts", error |-> "JSONDecodeError"]
          /\ UNCHANGED <<manifest, hist>>
     ELSE /\ Save(SetDefaults(load_manifest, feed))
          /\ io' = {"parse_feed", "save_manifest"}
          /\ last' = [op |-> "add_podcasts", episodes |-> Len(feed)]
  /\ chain' = ChainFresh
  /\ UNCHANGED <<index, llm, fs, faiss, pdf, stt, pc, queue, dl, markq, runs, faults, healthy>>

\* ------------------------------------------------ app.py process_podcast
ProcessStart ==
  /\ pc = "idle"
  /\ runs < MaxRuns
  /\ runs' = runs + 1
  /\ IF LoadRaises
     THEN \* the first load_manifest raises: {"success": False, ...}
          /\ queue' = <<>>
          /\ pc' = "idle"
          /\ last' = [op |-> "process_podcast", result |-> "failed", why |-> "JSONDecodeError"]
     ELSE LET es == load_manifest.episodes
          IN /\ queue' = [i \in 1..Len(es) |->
                            [guid |-> es[i].guid, title |-> es[i].rec.title,
                             url |-> es[i].rec.audio_url]]
             /\ pc' = IF es = <<>> THEN "embed" ELSE "download"
             /\ last' = [op |-> "process_podcast", result |-> "started"]
  /\ io' = {}
  /\ chain' = ChainFresh
  /\ UNCHANGED <<index, llm, manifest, fs, faiss, pdf, stt, dl, markq, faults, hist, healthy>>

\* ------------------------------------------- services/download.py
ValidUrlAnyScheme(url) == url # <<>>

\* audio_url and audio_url.startswith(('http://', 'https://'))
ValidUrl(url) == url # <<>> /\ url[1] \in {"http://", "https://"}

\* the skip test at the top of download_episode
DownloadSkips(mf, f, guid, title) ==
  /\ episode_done_at_least(mf, guid, "downloaded")
  /\ episode_paths(guid, title).audio \in DOMAIN f
  /\ FileSize(f, episode_paths(guid, title).audio) > MIN_FILE_SIZE

CleanupLeavesFiles(f, part, audio) == f

\* _cleanup_failed_download
CleanupFailed(f, part, audio) ==
  LET f1 == IF part \in DOMAIN f THEN Unlink(f, part) ELSE f
  IN IF audio \in DOMAIN f1 /\ FileSize(f1, audio) < MIN_FILE_SIZE THEN Unlink(f1, audio) ELSE f1

\* download_episode raises: partial files are removed, the ledger is untouched
DownloadRaises(f, e, why) ==
  LET p == episode_paths(e.guid, e.title)
  IN /\ fs' = CleanupFailed(f, p.audio_part, p.audio)
     /\ NextEpisode
     /\ ChainRaised(e.guid)
     /\ healthy' = FALSE
     /\ last' = [op |-> "download_episode", guid |-> e.guid, result |-> "raised", why |-> why]
     /\ UNCHANGED <<manifest, hist>>

\* after the retry loop: rename .part to the audio file, verify, record
DownloadCommit(f, e, d, mode) ==
  LET p == episode_paths(e.guid, e.title)
      f1 == WriteFile(Unlink(f, p.audio_part), p.audio, f[p.audio_part])
  IN IF p.audio_part \notin DOMAIN f THEN DownloadRaises(f, e, "rename")
     ELSE IF FileSize(f1, p.audio) < MIN_FILE_SIZE THEN DownloadRaises(f1, e, "final size")
     ELSE /\ fs' = f1
          /\ Save(update_episode_state(load_manifest, e.guid,
                    [title |-> e.title, audio_url |-> e.url, status |-> "downloaded",
                     files |-> [audio |-> p.audio]]))
          /\ pc' = "transcribe"
          /\ dl' = <<>>
          /\ last' = [op |-> "download_episode", guid |-> e.guid, result |-> "committed",
                      mode |-> mode, start_part |-> d.start_part, other |-> d.other,
                      retried |-> d.retried]
          /\ chain' = [chain EXCEPT !.faulty = @ \/ d.other \/ d.retried]
          /\ UNCHANGED <<queue, healthy>>

\* the first lines of download_episode, up to the retry loop
DownloadBegin ==
  /\ pc = "download"
  /\ LET e == Head(queue)
         p == episode_paths(e.guid, e.title)
         rf == IF Exists(p.audio_part) THEN Len(fs[p.audio_part]) ELSE 0
     IN IF DownloadSkips(load_manifest, fs, e.guid, e.title)
        THEN /\ pc' = "transcribe"
             /\ io' = {}
             /\ last' = [op |-> "download_episode", guid |-> e.guid, result |-> "skipped"]
             /\ ChainEntered(e.guid)
             /\ UNCHANGED <<manifest, fs, queue, dl, hist, healthy>>
        ELSE IF ~ValidUrl(e.url)
        THEN /\ NextEpisode
             /\ io' = {}
             /\ healthy' = FALSE
             /\ last' = [op |-> "download_episode", guid |-> e.guid, result |-> "raised",
                         why |-> "invalid url"]
             /\ ChainRaised(e.guid)
             /\ UNCHANGED <<manifest, fs, hist>>
        ELSE /\ dl' = [attempt |-> 0, resume_from |-> rf, range |-> rf > 0,
                       start_part |-> rf, other |-> FALSE, retried |-> FALSE]
             /\ pc' = "dl_attempt"
             /\ io' = {}
             /\ last' = [op |-> "download_episode", guid |-> e.guid, result |-> "started"]
             /\ ChainEntered(e.guid)
             /\ UNCHANGED <<manifest, fs, queue, hist, healthy>>
  /\ UNCHANGED <<index, llm, faiss, pdf, stt, markq, runs, faults>>

\* what the server sends for a response with this status to the current request
ServerBody(url, status, d) ==
  IF status = 206 THEN SubSeq(Source(url), d.resume_from + 1, Len(Source(url)))
  ELSE Source(url)

\* statuses a server may answer the current request with (beyond a failure)
ServerStatuses(url, d) ==
  {200} \cup (IF d.range /\ d.resume_from < Len(Source(url)) THEN {206} ELSE {})
        \cup (IF d.range THEN {203} ELSE {})

WriteModeAlwaysAppend(resume_from, status) == IF resume_from > 0 THEN "ab" ELSE "wb"

\* mode = "ab" if resume_from > 0 and response.status_code == 206 else "wb"
WriteMode(resume_from, status) == IF resume_from > 0 /\ status = 206 THEN "ab" ELSE "wb"

\* the .part file after `chunk` has been received and written under this mode
PartWritten(f, part, mode, chunk) ==
  IF mode = "ab" /\ part \in DOMAIN f THEN WriteFile(f, part, f[part] \o chunk)
  ELSE WriteFile(f, part, chunk)

AttemptGivesUpEarly(f, rf, e, why) ==
  LET p == episode_paths(e.guid, e.title)
  IN IF dl.attempt >= MAX_RETRIES - 2 THEN DownloadRaises(f, e, why)
     ELSE /\ fs' = f
          /\ dl' = [dl EXCEPT !.attempt = @ + 1, !.retried = TRUE,
                      !.resume_from = IF dl.range /\ p.audio_part \in DOMAIN f
                                      THEN Len(f[p.audio_part]) ELSE rf]
          /\ last' = [op |-> "download_episode", guid |-> e.guid, result |-> "retry", why |-> why]
          /\ UNCHANGED <<manifest, pc, queue, hist, healthy, chain>>

\* an attempt failed with a request, OS or size error
AttemptFailed(f, rf, e, why) ==
  LET p == episode_paths(e.guid, e.title)
  IN IF dl.attempt = MAX_RETRIES - 1 THEN DownloadRaises(f, e, why)
     ELSE /\ fs' = f
          /\ dl' = [dl EXCEPT !.attempt = @ + 1, !.retried = TRUE,
                      !.resume_from = IF dl.range /\ p.audio_part \in DOMAIN f
                                      THEN Len(f[p.audio_part]) ELSE rf]
          /\ last' = [op |-> "download_episode", guid |-> e.guid, result |-> "retry", why |-> why]
          /\ UNCHANGED <<manifest, pc, queue, hist, healthy, chain>>

\* one pass of the retry loop, with what follows the loop when it is the last
DownloadAttempt ==
  /\ pc = "dl_attempt"
  /\ LET e == Head(queue)
         p == episode_paths(e.guid, e.title)
     IN \/ /\ io' = {"http_get"}
           /\ AttemptFailed(fs, dl.resume_from, e, "request failed")
        \/ \E status \in ServerStatuses(e.url, dl) :
             IF dl.resume_from > 0 /\ status \notin {206, 200}
             THEN \* "server doesn't support resume": start over without Range
                  /\ io' = {"http_get"}
                  /\ IF dl.attempt = MAX_RETRIES - 1
                     THEN DownloadCommit(fs, e, [dl EXCEPT !.other = TRUE], "none")
                     ELSE /\ dl' = [dl EXCEPT !.attempt = @ + 1, !.resume_from = 0,
                                              !.range = FALSE, !.other = TRUE]
                          /\ last' = [op |-> "download_episode", guid |-> e.guid,
                                      result |-> "retry", why |-> "no resume"]
                          /\ UNCHANGED <<manifest, fs, pc, queue, hist, healthy, chain>>
             ELSE LET body == ServerBody(e.url, status, dl)
                      mode == WriteMode(dl.resume_from, status)
                      rf == IF mode = "wb" /\ Exists(p.audio_part) THEN 0 ELSE dl.resume_from
                  IN \E k \in 0..Len(body) :
                       LET f1 == PartWritten(fs, p.audio_part, mode, SubSeq(body, 1, k))
                       IN /\ io' = {"http_get", "write_part"}
                          /\ IF k < Len(body) THEN AttemptFailed(f1, rf, e, "transfer broke")
                             ELSE IF FileSize(f1, p.audio_part) < MIN_FILE_SIZE
                             THEN AttemptFailed(f1, rf, e, "too small")
                             ELSE DownloadCommit(f1, e, dl, mode)
  /\ UNCHANGED <<index, llm, faiss, pdf, stt, markq, runs, faults>>

\* the process is killed while a response body is being written to .part
KillMidTransfer ==
  /\ pc = "dl_attempt"
  /\ faults < MaxFaults
  /\ LET e == Head(queue)
         p == episode_paths(e.guid, e.title)
     IN \E status \in ServerStatuses(e.url, dl) \ {203} :
          LET body == ServerBody(e.url, status, dl)
              mode == WriteMode(dl.resume_from, status)
          IN \E k \in 0..Len(body) :
               fs' = PartWritten(fs, p.audio_part, mode, SubSeq(body, 1, k))
  /\ pc' = "idle" /\ queue' = <<>> /\ dl' = <<>> /\ markq' = <<>>
  /\ faults' = faults + 1
  /\ healthy' = FALSE
  /\ io' = {"http_get", "write_part"}
  /\ last' = [op |-> "kill", at |-> "transfer"]
  /\ chain' = ChainFresh
  /\ UNCHANGED <<index, llm, manifest, faiss, pdf, stt, runs, hist>>

\* ------------------------------------------- services/transcribe.py
\* the text the speech-to-text service returns for an audio file: one line per block
Line(b) ==
  CASE b = 1 -> <<"Intro", ":", "welcome", "back">>
    [] b = 2 -> <<"we", "talk", "hotels", ".", "This", "episode", "is", "sponsored", "by", "Acme">>
    [] b = 3 -> <<"guest", "stories", "and", "service">>
    [] b = 4 -> <<"use", "code", "SAVE20", "today">>
    [] b = 5 -> <<"booking", "tips", "for", "staff">>
    [] OTHER -> <<"short", "clip">>

TranscriptOf(audio) == [i \in 1..Len(audio) |-> Line(audio[i])]

TranscriptIdForgotten(epi) == 0

\* tid = epi.get("transcript_id"); 0 stands for None
TranscriptId(epi) == DictGet(epi, "transcript_id", 0)

\* the first lines of transcribe_episode, up to the polling loop
TranscribeBegin ==
  /\ pc = "transcribe"
  /\ LET e == Head(queue)
         p == episode_paths(e.guid, e.title)
         mf == load_manifest
         tid == TranscriptId(EpisodeRec(mf, e.guid))
     IN IF episode_done_at_least(mf, e.guid, "transcribed")
        THEN /\ pc' = "clean"
             /\ io' = {}
             /\ last' = [op |-> "transcribe_episode", guid |-> e.guid, result |-> "skipped"]
             /\ UNCHANGED <<manifest, stt, queue, dl, hist, healthy, chain>>
        ELSE IF Exists(p.raw) /\ Len(fs[p.raw]) > 0
        THEN /\ Save(update_episode_state(mf, e.guid,
                       [status |-> "transcribed", files |-> [raw |-> p.raw]]))
             /\ pc' = "clean"
             /\ io' = {}
             /\ last' = [op |-> "transcribe_episode", guid |-> e.guid, result |-> "adopted"]
             /\ UNCHANGED <<stt, queue, dl, healthy, chain>>
        ELSE IF tid # 0
        THEN /\ pc' = "poll"
             /\ io' = {}
             /\ last' = [op |-> "transcribe_episode", guid |-> e.guid, result |-> "resumed"]
             /\ UNCHANGED <<manifest, stt, queue, dl, hist, healthy, chain>>
        ELSE IF ~Exists(p.audio)
        THEN /\ NextEpisode
             /\ io' = {}
             /\ healthy' = FALSE
             /\ last' = [op |-> "transcribe_episode", guid |-> e.guid, result |-> "raised",
                         why |-> "no audio"]
             /\ ChainRaised(e.guid)
             /\ UNCHANGED <<manifest, stt, hist>>
        ELSE \/ \* every upload method failed
                /\ NextEpisode
                /\ io' = {"upload"}
                /\ healthy' = FALSE
                /\ last' = [op |-> "transcribe_episode", guid |-> e.guid, result |-> "raised",
                            why |-> "upload"]
                /\ ChainRaised(e.guid)
                /\ UNCHANGED <<manifest, stt, hist>>
             \/ \* the job submission failed
                /\ NextEpisode
                /\ io' = {"upload", "submit"}
                /\ healthy' = FALSE
                /\ last' = [op |-> "transcribe_episode", guid |-> e.guid, result |-> "raised",
                            why |-> "submit"]
                /\ ChainRaised(e.guid)
                /\ UNCHANGED <<manifest, stt, hist>>
             \/ /\ stt' = Append(stt, [audio |-> fs[p.audio], state |-> "processing"])
                /\ Save(update_episode_state(mf, e.guid, [transcript_id |-> Len(stt) + 1]))
                /\ pc' = "poll"
                /\ io' = {"upload", "submit"}
                /\ last' = [op |-> "transcribe_episode", guid |-> e.guid, result |-> "submitted"]
                /\ UNCHANGED <<queue, dl, healthy, chain>>
  /\ UNCHANGED <<index, llm, fs, faiss, pdf, markq, runs, faults>>

\* how the polling loop of transcribe_episode can end for a job in this state
PollEndings(state) ==
  CASE state = "processing" -> {"completed", "empty", "error", "timeout", "network"}
    [] state = "completed" -> {"completed", "network"}
    [] state = "empty" -> {"empty", "network"}
    [] OTHER -> {"error", "network"}

\* the polling loop of transcribe_episode, from its first poll to its return or raise
TranscribePoll ==
  /\ pc = "poll"
  /\ LET e == Head(queue)
         p == episode_paths(e.guid, e.title)
         mf == load_manifest
         tid == EpisodeRec(mf, e.guid).transcript_id
     IN \E ending \in PollEndings(stt[tid].state) :
          /\ stt' = IF ending \in {"completed", "empty", "error"}
                    THEN [stt EXCEPT ![tid].state = ending] ELSE stt
          /\ io' = {"poll"}
          /\ IF ending = "completed"
             THEN /\ fs' = WriteFile(fs, p.raw, TranscriptOf(stt[tid].audio))
                  /\ Save(update_episode_state(mf, e.guid,
                            [status |-> "transcribed", files |-> [raw |-> p.raw]]))
                  /\ pc' = "clean"
                  /\ last' = [op |-> "transcribe_episode", guid |-> e.guid, result |-> "committed"]
                  /\ UNCHANGED <<queue, dl, healthy, chain>>
             ELSE /\ NextEpisode
                  /\ healthy' = FALSE
                  /\ last' = [op |-> "transcribe_episode", guid |-> e.guid, result |-> "raised",
                              why |-> ending]
                  /\ ChainRaised(e.guid)
                  /\ UNCHANGED <<manifest, fs, hist>>
  /\ UNCHANGED <<index, llm, faiss, pdf, markq, runs, faults>>

\* ------------------------------------------------ services/clean.py
Lower(tok) ==
  CASE tok = "Intro" -> "intro" [] tok = "This" -> "this" [] tok = "Acme" -> "acme"
    [] tok = "SAVE20" -> "save20" [] tok = "While" -> "while" [] tok = "That's" -> "that's"
    [] tok = "I" -> "i" [] tok = "In" -> "in" [] tok = "Oh" -> "oh" [] tok = "Having" -> "having"
    [] tok = "What" -> "what" [] tok = "Tell" -> "tell" [] tok = "Which" -> "which"
    [] tok = "I'm" -> "i'm" [] tok = "I'd" -> "i'd" [] tok = "May" -> "may"
    [] tok = "Before" -> "before" [] tok = "We" -> "we" [] tok = "Across" -> "across"
    [] OTHER -> tok

\* tokens that match [A-Z0-9]{4,} under IGNORECASE
CodeLike(tok) == tok \in {"SAVE20", "today", "welcome", "hotels", "stories", "service", "booking", "staff"}

\* first position of the line at which one of AD_PATTERNS matches, 0 if none
AdStart(line) ==
  LET low == [i \in 1..Len(line) |-> Lower(line[i])]
      hit(i) == \/ MatchAt(low, i, <<"this", "episode", "is", "sponsored", "by">>)
                \/ (MatchAt(low, i, <<"use", "code">>) /\ i + 2 <= Len(line) /\ CodeLike(line[i + 2]))
                \/ MatchAt(low, i, <<"promo", "code">>)
  IN IF \E i \in 1..Len(line) : hit(i)
     THEN CHOOSE i \in 1..Len(line) : hit(i) /\ \A j \in 1..(i - 1) : ~hit(j)
     ELSE 0

\* one line with the ad patterns and the intro/outro patterns replaced by a blank
CleanLine(line) ==
  LET kept == IF AdStart(line) = 0 THEN line ELSE SubSeq(line, 1, AdStart(line) - 1)
  IN IF Len(kept) >= 2 /\ Lower(kept[1]) \in {"intro", "outro"} /\ kept[2] \in {":", "-"}
     THEN <<>> ELSE kept

RECURSIVE CleanText(_)
\* the cleaned text: the cleaned lines joined by single blanks
CleanText(lines) ==
  IF lines = <<>> THEN <<>> ELSE CleanLine(Head(lines)) \o CleanText(Tail(lines))

clean_transcript ==
  /\ pc = "clean"
  /\ LET e == Head(queue)
         p == episode_paths(e.guid, e.title)
         mf == load_manifest
         txt == IF Exists(p.raw) THEN fs[p.raw] ELSE <<>>
     IN IF episode_done_at_least(mf, e.guid, "cleaned")
        THEN /\ io' = {}
             /\ last' = [op |-> "clean_transcript", guid |-> e.guid, result |-> "skipped"]
             /\ UNCHANGED <<manifest, fs, hist>>
        ELSE /\ fs' = WriteFile(fs, p.clean, CleanText(txt))
             /\ Save(update_episode_state(mf, e.guid,
                       [status |-> "cleaned", files |-> [clean |-> p.clean]]))
             /\ io' = {"write_clean"}
             /\ last' = [op |-> "clean_transcript", guid |-> e.guid, result |-> "committed"]
  /\ NextEpisode
  /\ ChainDone(Head(queue).guid)
  /\ UNCHANGED <<index, llm, faiss, pdf, stt, markq, runs, faults, healthy>>

\* ------------------------------------- process_podcast, after the episode loop
ProcessCrashes(why) ==
  /\ pc' = "idle" /\ queue' = <<>> /\ dl' = <<>> /\ markq' = <<>>
  /\ healthy' = FALSE
  /\ last' = [op |-> "process_podcast", result |-> "raised", why |-> why]

\* an exception reaches process_podcast's outer handler: {"success": False, ...}
ProcessFails(why) ==
  /\ pc' = "idle" /\ queue' = <<>> /\ dl' = <<>> /\ markq' = <<>>
  /\ healthy' = FALSE
  /\ last' = [op |-> "process_podcast", result |-> "failed", why |-> why]

GuidsOf(mf) == [i \in 1..Len(mf.episodes) |-> mf.episodes[i].guid]

\* Path(""), the current directory: it exists and cannot be read as text
CurDir == <<>>

\* Path(epi.get("files", {}).get("clean", ""))
CleanPathOf(rec) == DictGet(DictGet(rec, "files", EmptyDict), "clean", CurDir)

CleanedButLast(mf, f) ==
  LET c == SelectSeq(mf.episodes,
                     LAMBDA ep : CleanPathOf(ep.rec) # CurDir /\ CleanPathOf(ep.rec) \in DOMAIN f)
  IN SubSeq(c, 1, Len(c) - 1)

\* the episodes of mf whose clean file can be read, in ledger order
Cleaned(mf, f) ==
  SelectSeq(mf.episodes, LAMBDA ep : CleanPathOf(ep.rec) # CurDir /\ CleanPathOf(ep.rec) \in DOMAIN f)

\* ------------------------------------------- services/embeddings.py
SkipsNever(mf) == FALSE

\* all([episode_done_at_least(podcast, guid, "embedded") for guid in ...])
previously_embedded(mf) ==
  \A i \in 1..Len(mf.episodes) : episode_done_at_least(mf, mf.episodes[i].guid, "embedded")

build_embeddings ==
  /\ pc = "embed"
  /\ LET mf == load_manifest
         es == mf.episodes
         got == Cleaned(mf, fs)
     IN IF previously_embedded(mf)
        THEN /\ pc' = "pdf"
             /\ io' = {}
             /\ last' = [op |-> "build_embeddings", result |-> "skipped"]
             /\ chain' = [chain EXCEPT !.stage = "embedded"]
             /\ UNCHANGED <<faiss, queue, dl, markq, healthy>>
        ELSE IF \E i \in 1..Len(es) : CleanPathOf(es[i].rec) = CurDir
        THEN /\ ProcessFails("clean path is a directory")
             /\ io' = {"load_model"}
             /\ UNCHANGED <<faiss, chain>>
        ELSE IF got = <<>>
        THEN /\ pc' = "pdf"
             /\ io' = {"load_model"}
             /\ last' = [op |-> "build_embeddings", result |-> "no texts"]
             /\ chain' = [chain EXCEPT !.stage = "embedded"]
             /\ UNCHANGED <<faiss, queue, dl, markq, healthy>>
        ELSE \/ /\ ProcessFails("embedding model")
                /\ io' = {"load_model", "encode"}
                /\ UNCHANGED <<faiss, chain>>
             \/ /\ faiss' = <<[vectors |-> [i \in 1..Len(got) |-> fs[CleanPathOf(got[i].rec)]],
                               metas |-> [i \in 1..Len(got) |->
                                            [guid |-> got[i].guid,
                                             title |-> DictGet(got[i].rec, "title", got[i].guid)]]]>>
                /\ markq' = GuidsOf(mf)
                /\ pc' = "embed_mark"
                /\ io' = {"load_model", "encode", "write_index"}
                /\ last' = [op |-> "build_embeddings", result |-> "built"]
                /\ chain' = [chain EXCEPT !.built = TRUE]
                /\ UNCHANGED <<queue, dl, healthy>>
  /\ UNCHANGED <<index, llm, manifest, fs, pdf, stt, runs, faults, hist>>

\* one pass of "for guid in mf['episodes']: update_episode_state(.., status='embedded')"
EmbedMark ==
  /\ pc = "embed_mark"
  /\ Save(update_episode_state(load_manifest, Head(markq), [status |-> "embedded"]))
  /\ markq' = Tail(markq)
  /\ pc' = IF Tail(markq) = <<>> THEN "pdf" ELSE "embed_mark"
  /\ io' = {}
  /\ last' = [op |-> "build_embeddings", guid |-> Head(markq), result |-> "marked"]
  /\ chain' = IF Tail(markq) = <<>> THEN [chain EXCEPT !.stage = "embedded"] ELSE chain
  /\ UNCHANGED <<index, llm, fs, faiss, pdf, stt, queue, dl, runs, faults, healthy>>

\* ------------------------------------------------ services/pdfgen.py
generate_podcast_pdf ==
  /\ pc = "pdf"
  /\ LET mf == load_manifest
         es == mf.episodes
         text(rec) == IF CleanPathOf(rec) \in DOMAIN fs THEN fs[CleanPathOf(rec)] ELSE <<>>
     IN IF \E i \in 1..Len(es) : CleanPathOf(es[i].rec) = CurDir
        THEN /\ ProcessFails("clean path is a directory")
             /\ io' = {}
             /\ UNCHANGED <<pdf, chain>>
        ELSE \/ /\ ProcessFails("render")
                /\ io' = {"render"}
                /\ UNCHANGED <<pdf, chain>>
             \/ /\ pdf' = <<[i \in 1..Len(es) |->
                              [title |-> DictGet(es[i].rec, "title", es[i].guid),
                               text |-> text(es[i].rec)]]>>
                /\ io' = {"render"}
                /\ IF es = <<>>
                   THEN /\ pc' = "idle" /\ markq' = <<>>
                        /\ last' = [op |-> "process_podcast", result |-> "success"]
                   ELSE /\ pc' = "pdf_mark" /\ markq' = GuidsOf(mf)
                        /\ last' = [op |-> "generate_podcast_pdf", result |-> "rendered"]
                /\ chain' = [chain EXCEPT !.stage = "published"]
                /\ UNCHANGED <<queue, dl, healthy>>
  /\ UNCHANGED <<index, llm, manifest, fs, faiss, stt, runs, faults, hist>>

PdfMarkSkipsRaised ==
  /\ pc = "pdf_mark"
  /\ IF chain.outcome[Head(markq)] = "raised"
     THEN UNCHANGED <<manifest, hist>>
     ELSE Save(update_episode_state(load_manifest, Head(markq), [status |-> "pdf"]))
  /\ markq' = Tail(markq)
  /\ pc' = IF Tail(markq) = <<>> THEN "idle" ELSE "pdf_mark"
  /\ io' = {}
  /\ last' = IF Tail(markq) = <<>> THEN [op |-> "process_podcast", result |-> "success"]
             ELSE [op |-> "process_podcast", guid |-> Head(markq), result |-> "marked"]
  /\ UNCHANGED <<chain, index, llm, fs, faiss, pdf, stt, queue, dl, runs, faults, healthy>>

\* one pass of "for guid in mf['episodes']: update_episode_state(.., status='pdf')"
PdfMark ==
  /\ pc = "pdf_mark"
  /\ Save(update_episode_state(load_manifest, Head(markq), [status |-> "pdf"]))
  /\ markq' = Tail(markq)
  /\ pc' = IF Tail(markq) = <<>> THEN "idle" ELSE "pdf_mark"
  /\ io' = {}
  /\ last' = IF Tail(markq) = <<>> THEN [op |-> "process_podcast", result |-> "success"]
             ELSE [op |-> "process_podcast", guid |-> Head(markq), result |-> "marked"]
  /\ UNCHANGED <<chain, index, llm, fs, faiss, pdf, stt, queue, dl, runs, faults, healthy>>

\* ------------------------------------------------------- the environment
\* the invoking process is terminated between two steps
Kill ==
  /\ pc # "idle"
  /\ faults < MaxFaults
  /\ pc' = "idle" /\ queue' = <<>> /\ dl' = <<>> /\ markq' = <<>>
  /\ faults' = faults + 1
  /\ healthy' = FALSE
  /\ io' = {}
  /\ last' = [op |-> "kill", at |-> pc]
  /\ chain' = ChainFresh
  /\ UNCHANGED <<index, llm, manifest, fs, faiss, pdf, stt, runs, hist>>

\* the invoking process is gone: its locals with it
Killed(at) ==
  /\ pc' = "idle" /\ queue' = <<>> /\ dl' = <<>> /\ markq' = <<>>
  /\ faults' = faults + 1
  /\ healthy' = FALSE
  /\ last' = [op |-> "kill", at |-> at]
  /\ chain' = ChainFresh

\* the process is killed while raw.write_text is writing the transcript the
\* service has just returned: the file holds the beginning of it
KillMidTranscript ==
  /\ pc = "poll"
  /\ faults < MaxFaults
  /\ LET e == Head(queue)
         p == episode_paths(e.guid, e.title)
         tid == EpisodeRec(load_manifest, e.guid).transcript_id
         text == TranscriptOf(stt[tid].audio)
     IN /\ stt[tid].state \in {"processing", "completed"}
        /\ stt' = [stt EXCEPT ![tid].state = "completed"]
        /\ \E k \in 0..(Len(text) - 1) : fs' = WriteFile(fs, p.raw, SubSeq(text, 1, k))
  /\ Killed("write raw")
  /\ io' = {"poll", "write_raw"}
  /\ UNCHANGED <<index, llm, manifest, faiss, pdf, runs, hist>>

\* the process is killed while clean.write_text is writing the cleaned text
KillMidClean ==
  /\ pc = "clean"
  /\ faults < MaxFaults
  /\ LET e == Head(queue)
         p == episode_paths(e.guid, e.title)
         txt == CleanText(IF Exists(p.raw) THEN fs[p.raw] ELSE <<>>)
     IN /\ ~episode_done_at_least(load_manifest, e.guid, "cleaned")
        /\ \E k \in 0..(Len(txt) - 1) : fs' = WriteFile(fs, p.clean, SubSeq(txt, 1, k))
  /\ Killed("write clean")
  /\ io' = {"write_clean"}
  /\ UNCHANGED <<index, llm, manifest, faiss, pdf, stt, runs, hist>>

\* the process is killed while save_manifest's write_text is writing the
\* ledger (shown for the saves of clean_transcript, whose clean file is
\* complete by then, and of the two status-marking loops): the file has been
\* truncated and holds at most the beginning of the new text
KillMidSave ==
  /\ pc \in {"clean", "embed_mark", "pdf_mark"}
  /\ faults < MaxFaults
  /\ IF pc = "clean"
     THEN LET e == Head(queue)
              p == episode_paths(e.guid, e.title)
          IN /\ ~episode_done_at_least(load_manifest, e.guid, "cleaned")
             /\ fs' = WriteFile(fs, p.clean, CleanText(IF Exists(p.raw) THEN fs[p.raw] ELSE <<>>))
     ELSE fs' = fs
  /\ manifest' = <<Torn>>
  /\ Killed("save_manifest")
  /\ io' = {"save_manifest"}
  /\ UNCHANGED <<index, llm, faiss, pdf, stt, runs, hist>>

\* an audio file disappears from the data directory
LoseAudio(g) ==
  /\ pc = "idle"
  /\ faults < MaxFaults
  /\ Exists(episode_paths(g, Title(g)).audio)
  /\ fs' = Unlink(fs, episode_paths(g, Title(g)).audio)
  /\ faults' = faults + 1
  /\ healthy' = FALSE
  /\ io' = {}
  /\ last' = [op |-> "lose_audio", guid |-> g]
  /\ chain' = ChainFresh
  /\ UNCHANGED <<index, llm, manifest, faiss, pdf, stt, pc, queue, dl, markq, runs, hist>>

\* a cleaned transcript disappears from the data directory
LoseClean(g) ==
  /\ pc = "idle"
  /\ faults < MaxFaults
  /\ Exists(episode_paths(g, Title(g)).clean)
  /\ fs' = Unlink(fs, episode_paths(g, Title(g)).clean)
  /\ faults' = faults + 1
  /\ healthy' = FALSE
  /\ io' = {}
  /\ last' = [op |-> "lose_clean", guid |-> g]
  /\ chain' = ChainFresh
  /\ UNCHANGED <<index, llm, manifest, faiss, pdf, stt, pc, queue, dl, markq, runs, hist>>

\* ------------------------------------------------ answering questions
\* Text is a sequence of tokens. Scores and confidences are fixed-point
\* numbers in units of 1/10000 (0.7 is 7000, 1.0 is 10000).
Podcasts == {"P1", "P2"}

RECURSIVE LowerText(_)
\* str.lower()
LowerText(t) == IF t = <<>> THEN <<>> ELSE <<Lower(Head(t))>> \o LowerText(Tail(t))

\* `word in text` for a one-word pattern is a substring test: the word also
\* matches inside the longer tokens of the vocabulary that contain it
Within(word, tok) ==
  \/ tok = word
  \/ <<word, tok>> \in {<<"hotel", "hotels">>, <<"guest", "guests">>, <<"2022", "2022-23">>,
                        <<"promo", "promotional">>, <<"advice", "advices">>}

HasWord(text, word) == \E i \in 1..Len(text) : Within(word, text[i])

\* `phrase in text` for a pattern of one or more words
HasPhrase(text, phrase) ==
  IF Len(phrase) = 1 THEN HasWord(text, phrase[1]) ELSE Contains(text, phrase)

\* ------------------------------------- services/embeddings.py (search)
\* the distance faiss reports for a result slot it could not fill (FLT_MAX),
\* far above every real distance
PadDistance == 1000000

\* search(podcast, query, top_k): no index file, no results; otherwise faiss
\* returns exactly top_k slots, the nearest vectors first, and fills the
\* slots it has no vector for with ordinal -1, which `idx < len(metas)` lets
\* through and metas[-1] resolves to the last episode
search(ix, podcast, top_k) ==
  LET d == ix[podcast].hits
      n == Len(d)
  IN IF n = 0 THEN <<>>
     ELSE [i \in 1..top_k |->
             IF i <= n THEN [idx |-> i - 1, title |-> <<podcast, i>>, score |-> d[i]]
             ELSE [idx |-> -1, title |-> <<podcast, n>>, score |-> PadDistance]]

\* ------------------------------------------------- services/debate.py
\* the entries get_relevant_episodes makes of one podcast's hits (search
\* results carry no text, so the text is empty)
AsEpisodes(podcast, hits) ==
  [i \in 1..Len(hits) |-> [podcast |-> podcast, title |-> hits[i].title, idx |-> hits[i].idx,
                           text |-> <<>>, score |-> hits[i].score]]

RECURSIVE AllHits(_, _, _)
\* the loop of get_relevant_episodes: the hits of every podcast, in list order
AllHits(ix, podcasts, limit) ==
  IF podcasts = <<>> THEN <<>>
  ELSE AsEpisodes(Head(podcasts), search(ix, Head(podcasts), limit))
       \o AllHits(ix, Tail(podcasts), limit)

MaxScore(episodes) ==
  CHOOSE v \in {episodes[i].score : i \in 1..Len(episodes)} :
    \A j \in 1..Len(episodes) : episodes[j].score <= v

RECURSIVE SortByScoreDesc(_)
\* list.sort(key=score, reverse=True): stable, equal scores keep their order
SortByScoreDesc(eps) ==
  IF eps = <<>> THEN <<>>
  ELSE SelectSeq(eps, LAMBDA e : e.score = MaxScore(eps))
       \o SortByScoreDesc(SelectSeq(eps, LAMBDA e : e.score # MaxScore(eps)))

\* all_episodes[:limit]
FirstN(all_episodes, limit) == SubSeq(all_episodes, 1, Min(limit, Len(all_episodes)))

get_relevant_episodes(ix, podcasts, query, limit) ==
  FirstN(SortByScoreDesc(AllHits(ix, podcasts, limit)), limit)

hospitality_keywords ==
  {"hotel", "guest", "service", "hospitality", "restaurant",
   "booking", "check-in", "amenities", "concierge", "staff"}

HasHospitalityKeyword(query) ==
  LET query_lower == LowerText(query)
  IN \E keyword \in hospitality_keywords : HasWord(query_lower, keyword)

Relevant(episodes) == Cardinality({i \in 1..Len(episodes) : episodes[i].score > 5000})

ConfidenceBoostOnlyAtTwo(episodes, query) ==
  IF episodes = <<>> THEN 0
  ELSE Min(Min(MaxScore(episodes), 10000)
           + (IF Relevant(episodes) = 2 THEN 1000 ELSE 0)
           + (IF HasHospitalityKeyword(query) THEN 500 ELSE 0), 10000)

ConfidenceUncapped(episodes, query) ==
  IF episodes = <<>> THEN 0
  ELSE Min(MaxScore(episodes), 10000)
       + (IF Relevant(episodes) >= 2 THEN 1000 ELSE 0)
       + (IF HasHospitalityKeyword(query) THEN 500 ELSE 0)

calculate_confidence(episodes, query) ==
  IF episodes = <<>> THEN 0
  ELSE LET highest_score == MaxScore(episodes)
           base_confidence == Min(highest_score, 10000)
           boosted == base_confidence + (IF Relevant(episodes) >= 2 THEN 1000 ELSE 0)
           keyed == boosted + (IF HasHospitalityKeyword(query) THEN 500 ELSE 0)
       IN Min(keyed, 10000)

AnyPhrase(query, phrases) ==
  LET query_lower == LowerText(query)
  IN \E ph \in phrases : HasPhrase(query_lower, ph)

detect_scenario_type(query) ==
  IF AnyPhrase(query, {<<"trends">>, <<"identify">>, <<"research">>, <<"top", "3">>, <<"shaping">>})
    THEN "research"
  ELSE IF AnyPhrase(query, {<<"questions">>, <<"interview">>, <<"craft">>, <<"preparing">>})
    THEN "question_crafting"
  ELSE IF AnyPhrase(query, {<<"advice">>, <<"advising">>, <<"recommend">>, <<"strategic">>})
    THEN "advisory"
  ELSE IF AnyPhrase(query, {<<"episode", "outline">>, <<"outline">>, <<"content", "creation">>})
    THEN "episode_outline"
  ELSE IF AnyPhrase(query, {<<"promo">>, <<"promotional">>, <<"script">>, <<"season", "launch">>})
    THEN "promotional_script"
  ELSE IF AnyPhrase(query, {<<"social", "media">>, <<"instagram">>, <<"twitter">>, <<"linkedin">>})
    THEN "social_media"
  ELSE IF AnyPhrase(query, {<<"newsletter">>, <<"weekly">>, <<"digest">>, <<"email">>})
    THEN "newsletter"
  ELSE IF AnyPhrase(query, {<<"general", "advice">>, <<"launching">>, <<"brand">>, <<"pillars">>})
    THEN "general_advice"
  ELSE "conversational"

\* the opening build_creative_prompt requires of a creative-mode answer
\* (scenario types it has no entry for use the conversational one)
RequiredOpening(scenario_type) ==
  CASE scenario_type = "research" ->
         <<"While", "we", "haven't", "explored", "[", "this", "]", "specifically", "in",
           "recent", "episodes", ",", "I", "can", "share", "some", "thoughts", "from", "my",
           "broader", "hospitality", "perspective">>
    [] scenario_type = "question_crafting" ->
         <<"While", "this", "topic", "hasn't", "come", "up", "in", "our", "recent", "shows",
           ",", "based", "on", "my", "podcasting", "experience">>
    [] scenario_type = "advisory" ->
         <<"This", "hasn't", "been", "a", "focus", "of", "our", "recent", "episodes", ",",
           "but", "from", "my", "broader", "hospitality", "experience">>
    [] OTHER ->
         <<"That's", "an", "interesting", "question", "!", "While", "this", "hasn't", "been",
           "a", "focus", "of", "our", "recent", "episodes", ",", "I", "can", "offer", "some",
           "insights", "from", "my", "hospitality", "experience">>

\* what the text-generation service answers to a prompt when it answers: it
\* follows the prompt, and decorates its text with markdown
LlmReply(prompt) ==
  CASE prompt.kind = "creative" -> RequiredOpening(prompt.scenario) \o <<"**", "so", "**">>
    [] prompt.kind = "database" ->
         <<"\"", "**", "In", "our", "recent", "episode", "about", "hotel", "trends", "**", ",",
           "we", "discussed", "#", "guest", "service", "\"">>
    [] prompt.kind = "simple" ->
         <<"We", "have", "not", "covered", "that", "on", "the", "show", ",", "*", "but",
           "*", "here", "is", "my", "take">>
    [] OTHER -> <<"Across", "these", "shows", ",", "the", "hosts", "agree", "on", "{", "service", "}">>

\* clean_text_output: markdown marks, brackets and braces go, then one pair of
\* surrounding double quotes
clean_text_output(text) ==
  LET plain == SelectSeq(text, LAMBDA tok : tok \notin {"#", "**", "*", "[", "]", "{", "}"})
  IN IF Len(plain) >= 2 /\ plain[1] = "\"" /\ plain[Len(plain)] = "\""
     THEN SubSeq(plain, 2, Len(plain) - 1) ELSE plain

ErrorAnswer ==
  <<"Oh", ",", "what", "a", "wonderful", "question", "!", "I'm", "having", "a", "bit", "of",
    "technical", "trouble", "accessing", "my", "podcast", "treasure", "chest", "right", "now">>

UseCreativeInclusive(confidence) == confidence <= 7000

\* use_creative_mode = confidence < 0.7
use_creative_mode(confidence) == confidence < 7000

ModePromptContentOnly(podcast, scenario_type, episodes, creative) ==
  [kind |-> "database", podcast |-> podcast, scenario |-> scenario_type,
   context |-> [i \in 1..Len(episodes) |-> episodes[i].title]]

\* the prompt of the chosen mode: the creative one, or the one that quotes
\* the titles of the passages
ModePrompt(podcast, scenario_type, episodes, creative) ==
  IF creative
  THEN [kind |-> "creative", podcast |-> podcast, scenario |-> scenario_type, context |-> <<>>]
  ELSE [kind |-> "database", podcast |-> podcast, scenario |-> scenario_type,
        context |-> [i \in 1..Len(episodes) |-> episodes[i].title]]

GeneratedKeepsConfidence(llm_ok, scenario_type, episodes, confidence, prompt) ==
  [raised |-> FALSE, calls |-> <<prompt>>, mode |-> prompt.kind, llm_raised |-> ~llm_ok,
   result |->
     [answer |-> IF llm_ok THEN clean_text_output(LlmReply(prompt)) ELSE ErrorAnswer,
      confidence |-> confidence,
      source |-> IF llm_ok THEN prompt.kind ELSE "error", episodes_count |-> Len(episodes),
      highest_score |-> IF episodes = <<>> THEN 0 ELSE MaxScore(episodes),
      scenario_type |-> scenario_type]]

\* from the generation call on: the dict built from the reply, or the one
\* of the except branch when the call raised
Generated(llm_ok, scenario_type, episodes, confidence, prompt) ==
  [raised |-> FALSE, calls |-> <<prompt>>, mode |-> prompt.kind, llm_raised |-> ~llm_ok,
   result |->
     IF llm_ok
     THEN [answer |-> clean_text_output(LlmReply(prompt)), confidence |-> confidence,
           source |-> prompt.kind, episodes_count |-> Len(episodes),
           highest_score |-> IF episodes = <<>> THEN 0 ELSE MaxScore(episodes),
           scenario_type |-> scenario_type,
           processing_mode |-> IF prompt.kind = "creative" THEN "creative" ELSE "content_based"]
     ELSE [answer |-> ErrorAnswer, confidence |-> 0, source |-> "error",
           episodes_count |-> Len(episodes), highest_score |-> 0,
           scenario_type |-> scenario_type]]

\* from the confidence on; a persona file that does not parse raises
Answered(ix, podcast, llm_ok, scenario_type, episodes, confidence) ==
  IF ix[podcast].persona = "corrupt"
  THEN [raised |-> TRUE, calls |-> <<>>, mode |-> "none", llm_raised |-> FALSE]
  ELSE Generated(llm_ok, scenario_type, episodes, confidence,
                 ModePrompt(podcast, scenario_type, episodes, use_creative_mode(confidence)))

AnswerFromScenarioBoost(ix, podcast, query, llm_ok, episodes) ==
  Answered(ix, podcast, llm_ok, detect_scenario_type(query), episodes,
           Min(calculate_confidence(episodes, query)
               + (IF detect_scenario_type(query) = "research" THEN 1000 ELSE 0), 10000))

AnswerFrom(ix, podcast, query, llm_ok, episodes) ==
  Answered(ix, podcast, llm_ok, detect_scenario_type(query), episodes,
           calculate_confidence(episodes, query))

\* the outcome of one call: whether it raised, the prompts it sent to the
\* text-generation service, the mode it chose and the dict it returned
single_persona_answer_with_confidence(ix, podcast, query, llm_ok) ==
  AnswerFrom(ix, podcast, query, llm_ok, get_relevant_episodes(ix, <<podcast>>, query, 3))

creative_indicators ==
  {<<"while", "this", "hasn't">>,
   <<"this", "topic", "hasn't", "been">>,
   <<"hasn't", "come", "up", "in", "our", "recent", "episodes">>,
   <<"drawing", "from", "my", "broader">>,
   <<"from", "my", "hospitality", "experience">>,
   <<"this", "hasn't", "been", "a", "focus">>}

TroubleAccessing(text) == Contains(text, <<"trouble", "accessing">>)

should_skip_synthesis(individual_responses) ==
  IF individual_responses = <<>> THEN TRUE
  ELSE LET valid == SelectSeq(individual_responses,
                                LAMBDA resp : ~TroubleAccessing(LowerText(resp.response)))
           creative == SelectSeq(valid, LAMBDA resp :
                                   LET response_text == LowerText(resp.response)
                                   IN \E ind \in creative_indicators :
                                        Contains(response_text, ind))
       IN IF Len(valid) = 0 THEN TRUE
          ELSE 5 * Len(creative) >= 4 * Len(valid)

BoundaryTerms == {<<"2023">>, <<"2022">>, <<"2021">>, <<"before", "2024">>, <<"pre-2024">>}

BoundaryResponse ==
  [synthesis |-> <<"Oh", ",", "I'd", "love", "to", "spill", "tea", "from", "those", "earlier",
                   "years", ",", "but", "my", "podcast", "treasure", "chest", "starts", "in",
                   "May", "2024", "!">>,
   individual_responses |-> <<>>, insights_count |-> 0, scenario_type |-> "edge_case",
   confidence |-> 10000, source |-> "system_boundary"]

SimpleFallback ==
  <<"That's", "an", "interesting", "question", "!", "While", "this", "hasn't", "been", "a",
    "topic", "we've", "explored", "in", "our", "recent", "podcast", "episodes">>

SynthesisFallback ==
  <<"What", "a", "fascinating", "question", "!", "I'm", "having", "a", "bit", "of", "trouble",
    "accessing", "all", "my", "podcast", "notes", "right", "now">>

RECURSIVE Flatten(_)
Flatten(seqs) == IF seqs = <<>> THEN <<>> ELSE Head(seqs) \o Flatten(Tail(seqs))

\* generate_simple_creative_response: the voice is the first podcast's persona,
\* loaded outside the try; a failed generation gives the fixed text
generate_simple_creative_response(ix, query, podcasts, llm_ok) ==
  LET prompt == [kind |-> "simple", podcast |-> IF podcasts = <<>> THEN "" ELSE podcasts[1],
                 scenario |-> "", context |-> <<>>]
  IN IF podcasts # <<>> /\ ix[podcasts[1]].persona = "corrupt"
     THEN [raised |-> TRUE, calls |-> <<>>]
     ELSE [raised |-> FALSE, calls |-> <<prompt>>,
           text |-> IF llm_ok THEN clean_text_output(LlmReply(prompt)) ELSE SimpleFallback]

\* apply_final_cleaning: every string of the dict goes through clean_text_output
apply_final_cleaning(data) ==
  [data EXCEPT !.synthesis = clean_text_output(@),
               !.individual_responses =
                 [i \in 1..Len(@) |-> [@[i] EXCEPT !.response = clean_text_output(@)]]]

RECURSIVE AskEach(_, _, _, _, _)
\* the loop over the podcasts, from position i on: one single-podcast answer each
AskEach(ix, podcasts, query, failing, i) ==
  IF i > Len(podcasts) THEN <<>>
  ELSE <<single_persona_answer_with_confidence(ix, podcasts[i], query, i \notin failing)>>
       \o AskEach(ix, podcasts, query, failing, i + 1)

\* individual_responses, from the outcomes of the loop: an answer that raised
\* becomes the "Having trouble accessing" entry
IndividualResponses(podcasts, one) ==
  [i \in 1..Len(podcasts) |->
     IF one[i].raised
     THEN [podcast |-> podcasts[i],
           response |-> <<"Having", "trouble", "accessing", podcasts[i], "insights",
                          "right", "now">>,
           confidence |-> 0, source |-> "error"]
     ELSE [podcast |-> podcasts[i], response |-> one[i].result.answer,
           confidence |-> one[i].result.confidence, source |-> one[i].result.source]]

InsightsCount(individual_responses) ==
  Len(SelectSeq(individual_responses, LAMBDA r : r.confidence > 0))

\* the branch taken when the gate skips: one simple response, no synthesis
SkippedSynthesis(scenario_type, all_episodes, asked, individual_responses, simple) ==
  IF simple.raised
  THEN [raised |-> TRUE, calls |-> asked, searched |-> TRUE, gate |-> "skip",
        replies |-> individual_responses]
  ELSE [raised |-> FALSE, calls |-> asked \o simple.calls, searched |-> TRUE, gate |-> "skip",
        replies |-> individual_responses,
        result |-> [synthesis |-> simple.text,
                    individual_responses |-> individual_responses,
                    insights_count |-> InsightsCount(individual_responses),
                    scenario_type |-> scenario_type,
                    episodes_referenced |-> Len(all_episodes), confidence |-> 0,
                    source |-> "simple_creative"]]

\* the text of the synthesis prompt: every reply without "trouble accessing",
\* and the first five passages
SynthesisPrompt(scenario_type, all_episodes, individual_responses) ==
  [kind |-> "synthesis", podcast |-> "", scenario |-> scenario_type,
   context |-> SelectSeq(individual_responses, LAMBDA resp : ~TroubleAccessing(resp.response)),
   episodes |-> SubSeq(all_episodes, 1, Min(5, Len(all_episodes)))]

\* the branch taken when the gate does not skip
Synthesized(query, last_ok, scenario_type, all_episodes, asked, individual_responses, prompt) ==
  [raised |-> FALSE, calls |-> Append(asked, prompt), searched |-> TRUE, gate |-> "synthesize",
   replies |-> individual_responses,
   result |-> apply_final_cleaning(
                [synthesis |-> IF last_ok THEN clean_text_output(LlmReply(prompt))
                               ELSE SynthesisFallback,
                 individual_responses |-> individual_responses,
                 insights_count |-> InsightsCount(individual_responses),
                 scenario_type |-> scenario_type,
                 episodes_referenced |-> Len(all_episodes),
                 confidence |-> calculate_confidence(all_episodes, query),
                 source |-> "database"])]

\* from the gate on
GateAndAnswer(ix, podcasts, query, last_ok, scenario_type, all_episodes, asked, replies) ==
  IF should_skip_synthesis(replies)
  THEN SkippedSynthesis(scenario_type, all_episodes, asked, replies,
                        generate_simple_creative_response(ix, query, podcasts, last_ok))
  ELSE Synthesized(query, last_ok, scenario_type, all_episodes, asked, replies,
                   SynthesisPrompt(scenario_type, all_episodes, replies))

\* from the loop over the podcasts on; one holds the outcomes of the loop
AfterAsking(ix, podcasts, query, last_ok, all_episodes, one) ==
  GateAndAnswer(ix, podcasts, query, last_ok, detect_scenario_type(query), all_episodes,
                Flatten([i \in 1..Len(one) |-> one[i].calls]),
                IndividualResponses(podcasts, one))

\* failing: the positions of the podcast list whose generation call fails;
\* last_ok: whether the closing call (synthesis or simple response) succeeds
multi_persona_debate_with_confidence(ix, podcasts, query, failing, last_ok) ==
  IF AnyPhrase(query, BoundaryTerms)
  THEN [raised |-> FALSE, calls |-> <<>>, searched |-> FALSE, gate |-> "none",
        replies |-> <<>>, result |-> BoundaryResponse]
  ELSE AfterAsking(ix, podcasts, query, last_ok,
                   get_relevant_episodes(ix, podcasts, query, 10),
                   AskEach(ix, podcasts, query, failing, 1))

\* multi_persona_debate: the dict of the call above, cut down to five keys
multi_persona_debate(inner) ==
  IF inner.raised THEN [raised |-> TRUE, why |-> "persona"]
  ELSE IF "episodes_referenced" \notin DOMAIN inner.result
  THEN [raised |-> TRUE, why |-> "KeyError: episodes_referenced"]
  ELSE [raised |-> FALSE,
        result |-> [synthesis |-> inner.result.synthesis,
                    individual_responses |->
                      [i \in 1..Len(inner.result.individual_responses) |->
                         [podcast |-> inner.result.individual_responses[i].podcast,
                          response |-> inner.result.individual_responses[i].response]],
                    insights_count |-> inner.result.insights_count,
                    scenario_type |-> inner.result.scenario_type,
                    episodes_referenced |-> inner.result.episodes_referenced]]

\* ------------------------------------------------- app.py, the queries
TellWine == <<"Tell", "me", "about", "wine">>
WhichHotels == <<"Which", "hotels", "impress", "you">>
IdentifyTrends == <<"identify", "the", "trends">>
CraftInterview == <<"craft", "interview", "questions">>
AdviceStaff == <<"advice", "for", "staff">>
Trends2022 == <<"hotel", "trends", "in", "2022">>
Before2024 == <<"wine", "lists", "Before", "2024">>
Queries == {TellWine, WhichHotels, IdentifyTrends, CraftInterview, AdviceStaff, Trends2022,
            Before2024}

QueryIdle == pc = "idle" /\ last.op = "init"

\* what query_single hands back for the outcome r of single_persona_answer:
\* the answer text, or {"error": ...} for an exception
SingleAnswered(podcast, query, episodes, r) ==
  /\ llm' = r.calls
  /\ last' = [op |-> "query_single", podcast |-> podcast, query |-> query,
              episodes |-> episodes, inner |-> r,
              response |-> IF r.raised THEN [error |-> "persona"]
                           ELSE [answer |-> r.result.answer]]

\* POST /query_single
query_single(podcast, query, llm_ok) ==
  /\ QueryIdle
  /\ SingleAnswered(podcast, query, get_relevant_episodes(index, <<podcast>>, query, 3),
                    single_persona_answer_with_confidence(index, podcast, query, llm_ok))
  /\ UNCHANGED <<manifest, fs, faiss, pdf, stt, pc, queue, dl, markq, runs, faults, io, hist,
                 healthy, index, chain>>

\* what query_multi hands back for the outcome of multi_persona_debate: the
\* dict as it is, or {"error": ...} for an exception
MultiResponse(outer) == IF outer.raised THEN [error |-> outer.why] ELSE outer.result

MultiAnswered(podcasts, query, inner) ==
  /\ llm' = inner.calls
  /\ last' = [op |-> "query_multi", podcasts |-> podcasts, query |-> query, inner |-> inner,
              response |-> MultiResponse(multi_persona_debate(inner))]

\* POST /query_multi
query_multi(podcasts, query, failing, last_ok) ==
  /\ QueryIdle
  /\ MultiAnswered(podcasts, query,
                   multi_persona_debate_with_confidence(index, podcasts, query, failing, last_ok))
  /\ UNCHANGED <<manifest, fs, faiss, pdf, stt, pc, queue, dl, markq, runs, faults, io, hist,
                 healthy, index, chain>>

\* the response has gone back to the caller: nothing is pending, as at the start
Respond ==
  /\ last.op \in {"query_single", "query_multi", "calculate_confidence"}
  /\ llm' = <<>>
  /\ last' = [op |-> "init"]
  /\ UNCHANGED <<manifest, fs, faiss, pdf, stt, pc, queue, dl, markq, runs, faults, io, hist,
                 healthy, index, chain>>

\* ---------------------------------------------- the ledger, read directly
\* Ledgers as a manifest.json may hold them, written by any earlier version
\* or by hand: records with unknown, empty or missing status, empty records.
LedgerStatuses == {"", "downloaded", "transcribed", "cleaned", "embedded", "pdf", "archived"}
LedgerRecs ==
  {EmptyDict, [title |-> Title(G1)]} \cup {[title |-> Title(G1), status |-> s] : s \in LedgerStatuses}
StageArgs == {"downloaded", "transcribed", "cleaned", "embedded", "pdf", "published", ""}

LedgerOf(present, r1, r2) ==
  [podcast_name |-> Podcast,
   episodes |-> (IF G1 \in present THEN <<[guid |-> G1, rec |-> r1]>> ELSE <<>>)
             \o (IF G2 \in present THEN <<[guid |-> G2, rec |-> r2]>> ELSE <<>>)]

Idle ==
  /\ fs = <<>> /\ faiss = <<>> /\ pdf = <<>> /\ stt = <<>>
  /\ pc = "idle" /\ queue = <<>> /\ dl = <<>> /\ markq = <<>>
  /\ runs = 0 /\ faults = 0 /\ io = {} /\ healthy = TRUE
  /\ hist = [g \in Guids |-> <<>>]
  /\ index = [p \in Podcasts |-> [hits |-> <<>>, persona |-> "absent"]]
  /\ llm = <<>>
  /\ chain = ChainFresh

Init ==
  /\ manifest = <<>>
  /\ Idle
  /\ last = [op |-> "init"]

Next ==
  \/ \E feed \in Feeds : add_podcasts(feed)
  \/ ProcessStart
  \/ DownloadBegin
  \/ DownloadAttempt
  \/ KillMidTransfer
  \/ TranscribeBegin
  \/ TranscribePoll
  \/ clean_transcript
  \/ build_embeddings
  \/ EmbedMark
  \/ generate_podcast_pdf
  \/ PdfMark
  \/ Kill
  \/ \E g \in Guids : LoseAudio(g)

Spec == Init /\ [][Next]_vars

\* a single writer that only ingests feeds and runs the pipeline: no process
\* is killed and no file is touched from outside
NextRuns ==
  \/ \E feed \in Feeds : add_podcasts(feed)
  \/ ProcessStart
  \/ DownloadBegin
  \/ DownloadAttempt
  \/ TranscribeBegin
  \/ TranscribePoll
  \/ clean_transcript
  \/ build_embeddings
  \/ EmbedMark
  \/ generate_podcast_pdf
  \/ PdfMark

SpecRuns == Init /\ [][NextRuns]_vars

\* the pipeline with a process that can be killed between two steps
NextResume ==
  \/ NextRuns
  \/ Kill

SpecResume == Init /\ [][NextResume]_vars

\* the pipeline over a data directory that can lose a cleaned transcript
NextLoss ==
  \/ NextRuns
  \/ \E g \in Guids : LoseClean(g)

SpecLoss == Init /\ [][NextLoss]_vars

\* the pipeline with a process that can be killed anywhere, file writes included
NextCrash ==
  \/ NextRuns
  \/ Kill
  \/ KillMidTransfer
  \/ KillMidTranscript
  \/ KillMidClean
  \/ KillMidSave

SpecCrash == Init /\ [][NextCrash]_vars

InitLedger ==
  /\ Idle
  /\ last = [op |-> "init"]
  /\ \E present \in SUBSET Guids, r1, r2 \in LedgerRecs :
       /\ (G1 \notin present => r1 = EmptyDict)
       /\ (G2 \notin present => r2 = EmptyDict)
       /\ manifest = IF present = {} THEN <<>> ELSE <<LedgerOf(present, r1, r2)>>

\* a caller asks whether guid has reached stage
StageReached(guid, stage) ==
  /\ last' = [op |-> "episode_done_at_least", guid |-> guid, stage |-> stage,
              result |-> episode_done_at_least(load_manifest, guid, stage)]
  /\ UNCHANGED pvars

NextLedger == \E g \in Guids, s \in StageArgs : StageReached(g, s)

SpecLedger == InitLedger /\ [][NextLedger]_vars

\* ------------------------------------------- the ledger, updated directly
\* the keyword arguments the stages pass to update_episode_state
UpdateArgs ==
  {[status |-> "downloaded", files |-> [audio |-> episode_paths(G1, Title(G1)).audio]],
   [transcript_id |-> 1],
   [status |-> "transcribed", files |-> [raw |-> episode_paths(G1, Title(G1)).raw]],
   [status |-> "embedded"]}

\* a caller updates the record of guid; `before` keeps the file as it was
UpdateCall(guid, kwargs) ==
  /\ last.op \in {"init", "update_episode_state"}
  /\ (IF last.op = "init" THEN 0 ELSE last.n) < MaxUpdates
  /\ Save(update_episode_state(load_manifest, guid, kwargs))
  /\ last' = [op |-> "update_episode_state", guid |-> guid, kwargs |-> kwargs,
              before |-> manifest, n |-> (IF last.op = "init" THEN 0 ELSE last.n) + 1]
  /\ UNCHANGED <<fs, faiss, pdf, stt, pc, queue, dl, markq, runs, faults, io, healthy, index,
                 llm, chain>>

NextUpdate == \E g \in Guids, kw \in UpdateArgs : UpdateCall(g, kw)

SpecUpdate == InitLedger /\ [][NextUpdate]_vars

\* ------------------------------------------- single-podcast questions
\* similarity values on the 1/10000 scale, around the two thresholds
Scores == {3000, 5500, 6999, 7000, 12000}
PersonaStates == {"absent", "present", "corrupt"}

\* the distances an index of at most MaxVectors episodes reports, nearest first
HitLists ==
  {h \in UNION {[1..k -> Scores] : k \in 0..MaxVectors} :
     \A i \in 1..(Len(h) - 1) : h[i] <= h[i + 1]}

InitAnswer ==
  /\ manifest = <<>> /\ fs = <<>> /\ faiss = <<>> /\ pdf = <<>> /\ stt = <<>>
  /\ pc = "idle" /\ queue = <<>> /\ dl = <<>> /\ markq = <<>>
  /\ runs = 0 /\ faults = 0 /\ io = {} /\ healthy = TRUE
  /\ hist = [g \in Guids |-> <<>>]
  /\ llm = <<>>
  /\ chain = ChainFresh
  /\ last = [op |-> "init"]
  /\ \E h \in HitLists, ps \in PersonaStates :
       index = [p \in Podcasts |-> IF p = "P1" THEN [hits |-> h, persona |-> ps]
                                   ELSE [hits |-> <<>>, persona |-> "absent"]]

\* a caller with no request pending asks one podcast a question
SingleRequest ==
  /\ QueryIdle
  /\ \E p \in Podcasts, q \in Queries, llm_ok \in BOOLEAN : query_single(p, q, llm_ok)

NextAnswer ==
  \/ SingleRequest
  \/ Respond

SpecAnswer == InitAnswer /\ [][NextAnswer]_vars

\* --------------------------------------------- multi-podcast questions
\* P1 has an index of three episodes, far from or near the query; P2 has no
\* index or an index of one episode
FarOrNear == {<<3000, 3000, 3000>>, <<7000, 7000, 12000>>}
NoneOrOne == {<<>>, <<3000>>}
PodcastLists == UNION {[1..k -> Podcasts] : k \in 0..MaxPodcasts}
FailureSets(n) == {F \in SUBSET (1..n) : Cardinality(F) <= MaxLlmFailures}

InitDebate ==
  /\ manifest = <<>> /\ fs = <<>> /\ faiss = <<>> /\ pdf = <<>> /\ stt = <<>>
  /\ pc = "idle" /\ queue = <<>> /\ dl = <<>> /\ markq = <<>>
  /\ runs = 0 /\ faults = 0 /\ io = {} /\ healthy = TRUE
  /\ hist = [g \in Guids |-> <<>>]
  /\ llm = <<>>
  /\ chain = ChainFresh
  /\ last = [op |-> "init"]
  /\ \E h1 \in FarOrNear, h2 \in NoneOrOne, ps \in {"absent", "corrupt"} :
       index = [p \in Podcasts |-> IF p = "P1" THEN [hits |-> h1, persona |-> "present"]
                                   ELSE [hits |-> h2, persona |-> ps]]

\* a caller with no request pending asks a list of podcasts a question
MultiRequest ==
  /\ QueryIdle
  /\ \E ps \in PodcastLists, q \in Queries :
       \E failing \in FailureSets(Len(ps)), last_ok \in BOOLEAN :
         query_multi(ps, q, failing, last_ok)

NextDebate ==
  \/ MultiRequest
  \/ Respond

SpecDebate == InitDebate /\ [][NextDebate]_vars

\* -------------------------------------------- the confidence score alone
ProbeScores == Scores \cup {0, PadDistance}
PassageLists == UNION {[1..k -> [score : ProbeScores]] : k \in 0..MaxPassages}

\* calculate_confidence for a passage list, and for the list with one more
\* passage that scores above all of them
ConfidenceProbe(episodes, added, query) ==
  /\ QueryIdle
  /\ IF episodes = <<>> THEN TRUE ELSE added > MaxScore(episodes)
  /\ last' = [op |-> "calculate_confidence", episodes |-> episodes, added |-> added,
              query |-> query,
              before |-> calculate_confidence(episodes, query),
              after |-> calculate_confidence(Append(episodes, [score |-> added]), query)]
  /\ UNCHANGED pvars

ConfidenceRequest ==
  /\ QueryIdle
  /\ \E episodes \in PassageLists, added \in ProbeScores, q \in Queries :
       ConfidenceProbe(episodes, added, q)

NextConfidence ==
  \/ ConfidenceRequest
  \/ Respond

SpecConfidence == Init /\ [][NextConfidence]_vars

\* C1: episode_done_at_least(guid, stage) is TRUE exactly when guid has a
\* record whose status is one of the five stages, stage is one of the five
\* stages, and the status does not come before stage; in every other case
\* (no record, empty or unknown status, unknown stage) it is FALSE.
StagePos(s) ==
  CASE s = "downloaded" -> 1 [] s = "transcribed" -> 2 [] s = "cleaned" -> 3
    [] s = "embedded" -> 4 [] s = "pdf" -> 5 [] OTHER -> 0

PersistedStatus(guid) ==
  LET es == load_manifest.episodes
  IN IF \E i \in 1..Len(es) : es[i].guid = guid /\ "status" \in DOMAIN es[i].rec
     THEN (CHOOSE e \in {es[i] : i \in 1..Len(es)} : e.guid = guid).rec.status
     ELSE ""

C1_StageReachedIffStatusAtLeast ==
  last.op = "episode_done_at_least" =>
    (last.result <=>
       /\ StagePos(last.stage) > 0
       /\ StagePos(PersistedStatus(last.guid)) >= StagePos(last.stage))

\* a record at "cleaned" is asked about "cleaned" and the answer is yes
C1_Witness ==
  /\ last.op = "episode_done_at_least"
  /\ PersistedStatus(last.guid) = "cleaned"
  /\ last.stage = "cleaned"
  /\ last.result = TRUE

\* ------------------------------------------------------------ the pipeline
StageOrder == <<"downloaded", "transcribed", "cleaned", "embedded", "pdf">>
AudioOf(g) == episode_paths(g, Title(g)).audio
UrlOf(g) == EpisodeRec(load_manifest, g).audio_url

\* C2: between two consecutive saves of the ledger no episode's persisted
\* status moves to an earlier position in '' < downloaded < transcribed <
\* cleaned < embedded < pdf.
C2_StatusNeverRegresses ==
  [][\A g \in Guids : StagePos(PersistedStatus(g))' >= StagePos(PersistedStatus(g))]_vars

\* C3: right after a call of download_episode, transcribe_episode or
\* clean_transcript has committed its artifact for an episode, the same call
\* made again takes the stage's skip branch (which calls no collaborator and
\* writes nothing).
C3_SecondCallSkips ==
  (last.op \in {"download_episode", "transcribe_episode", "clean_transcript"}
     /\ last.result \in {"committed", "adopted"}) =>
    CASE last.op = "download_episode" ->
           DownloadSkips(load_manifest, fs, last.guid, Title(last.guid))
      [] last.op = "transcribe_episode" ->
           episode_done_at_least(load_manifest, last.guid, "transcribed")
      [] OTHER -> episode_done_at_least(load_manifest, last.guid, "cleaned")

\* the first process_podcast run over a ledger that holds one episode, with
\* nothing having failed so far
FirstHealthyRun(g) == healthy /\ runs = 1 /\ GuidsOf(load_manifest) = <<g>>

\* C4: in the first run over a one-episode ledger with every collaborator
\* succeeding, the persisted status runs through downloaded, transcribed,
\* cleaned, embedded, pdf in that order, one stage at a time, and when a stage
\* starts the artifact of the stage before it exists.
C4_StagesInOrder ==
  \A g \in Guids : FirstHealthyRun(g) =>
    /\ IsPrefix(hist[g], StageOrder)
    /\ ((pc = "idle" /\ last.op = "process_podcast") => hist[g] = StageOrder)
    /\ (pc \in {"transcribe", "poll"} => hist[g] = SubSeq(StageOrder, 1, 1) /\ Exists(AudioOf(g)))
    /\ (pc = "clean" => hist[g] = SubSeq(StageOrder, 1, 2)
                          /\ Exists(episode_paths(g, Title(g)).raw))
    /\ (pc = "embed" => hist[g] = SubSeq(StageOrder, 1, 3)
                          /\ Exists(episode_paths(g, Title(g)).clean))
    /\ (pc = "pdf" => hist[g] = SubSeq(StageOrder, 1, 4) /\ faiss # <<>>)

\* the run over the one episode with audio_url https://x/a.mp3 has returned success
C4_Witness ==
  /\ FirstHealthyRun(G1)
  /\ UrlOf(G1) = UrlA
  /\ pc = "idle"
  /\ last = [op |-> "process_podcast", result |-> "success"]
  /\ hist[G1] = StageOrder
  /\ pdf # <<>>

\* C5: an audio file that download_episode commits holds exactly the bytes the
\* source serves, also when the call started from a .part file left by a
\* killed download (the server appending from the Range offset with 206, or
\* ignoring the Range with 200) and when a broken transfer was retried inside
\* the call. (Servers that answer a Range request with another success status
\* are not covered by this property.)
C5_CommittedAudioIsSource ==
  (last.op = "download_episode" /\ last.result = "committed" /\ ~last.other) =>
    fs[AudioOf(last.guid)] = Source(UrlOf(last.guid))

\* a download killed after some bytes is resumed with 206 and committed
C5_Witness ==
  /\ last.op = "download_episode" /\ last.result = "committed"
  /\ faults > 0
  /\ last.start_part > 0
  /\ last.mode = "ab"
  /\ ~last.other
  /\ fs[AudioOf(last.guid)] = Source(UrlOf(last.guid))

\* C6: the gate skips exactly when no reply is valid (non-error) or the
\* fallback-mode replies are at least 80% of the non-error replies.
FallbackReplies(replies) == Len(SelectSeq(replies, LAMBDA r : r.source = "creative"))
NonErrorReplies(replies) == Len(SelectSeq(replies, LAMBDA r : r.source # "error"))

C6_GateCountsFallbackReplies ==
  (last.op = "query_multi" /\ last.inner.gate # "none") =>
    ((last.inner.gate = "skip") <=>
       \/ NonErrorReplies(last.inner.replies) = 0
       \/ 5 * FallbackReplies(last.inner.replies) >= 4 * NonErrorReplies(last.inner.replies))

\* C7: when the gate does not skip, the fallback-mode replies being fewer
\* than 80% of the non-error replies, every individual answer quoted in the
\* synthesis prompt is a content-mode answer: no fallback-mode answer and no
\* error answer is quoted.
C7_SynthesisQuotesContentOnly ==
  (/\ last.op = "query_multi"
   /\ last.inner.gate = "synthesize"
   /\ 5 * FallbackReplies(last.inner.replies) < 4 * NonErrorReplies(last.inner.replies)) =>
    \A i \in 1..Len(llm) :
      llm[i].kind = "synthesis" =>
        \A j \in 1..Len(llm[i].context) : llm[i].context[j].source = "database"

\* C8: a multi-podcast question that names a year before the data horizon
\* gets the fixed boundary response with confidence 1.0, with no retrieval
\* and no generation call, from multi_persona_debate_with_confidence and,
\* through multi_persona_debate, from /query_multi (no error result).
C8_BoundaryResponseReturned ==
  (last.op = "query_multi" /\ AnyPhrase(last.query, BoundaryTerms)) =>
    /\ ~last.inner.raised
    /\ last.inner.result = BoundaryResponse
    /\ last.inner.result.confidence = 10000
    /\ ~last.inner.searched
    /\ llm = <<>>
    /\ "error" \notin DOMAIN last.response
    /\ last.response.synthesis = BoundaryResponse.synthesis

\* C9 as stated: a best passage score of exactly 0.7 selects content mode and
\* a best passage score of 0.6999 selects creative mode, whatever the other
\* passages and the words of the question.
AnsweredSingle == last.op = "query_single" /\ ~last.inner.raised /\ last.episodes # <<>>

C9_ThresholdAlone ==
  AnsweredSingle =>
    /\ (MaxScore(last.episodes) = 7000 => last.inner.mode = "database")
    /\ (MaxScore(last.episodes) = 6999 => last.inner.mode = "creative")

\* C9 as amended: a best passage score of exactly 0.7 always selects content
\* mode; a best passage score of 0.6999 selects creative mode exactly when
\* fewer than two passages score above 0.5 and the question holds no
\* hospitality keyword (either boost lifts the confidence to 0.7 or more).
Boosted(episodes, query) == Relevant(episodes) >= 2 \/ HasHospitalityKeyword(query)

C9_ThresholdAfterBoosts ==
  AnsweredSingle =>
    /\ (MaxScore(last.episodes) = 7000 => last.inner.mode = "database")
    /\ (MaxScore(last.episodes) = 6999 =>
          (last.inner.mode = "creative" <=> ~Boosted(last.episodes, last.query)))

C9_Witness ==
  /\ AnsweredSingle
  /\ MaxScore(last.episodes) = 6999
  /\ ~Boosted(last.episodes, last.query)
  /\ last.inner.mode = "creative"
  /\ Len(llm) = 1 /\ llm[1].kind = "creative"

\* C10: for a fixed question, the confidence of a passage list with one more
\* passage that scores above all of them is at least the confidence of the list.
C10_ConfidenceMonotone ==
  last.op = "calculate_confidence" => last.after >= last.before

C10_Witness ==
  /\ last.op = "calculate_confidence"
  /\ Len(last.episodes) >= 2
  /\ Relevant(last.episodes) >= 2
  /\ last.before < 10000
  /\ last.after > last.before

\* ------------------------------------------------------------------ C11
ChainOps == {"download_episode", "transcribe_episode", "clean_transcript"}
AfterLoop == {"embed", "embed_mark", "pdf", "pdf_mark"}
LedgerGuids == {load_manifest.episodes[i].guid : i \in 1..Len(load_manifest.episodes)}

\* C11: when download_episode, transcribe_episode or clean_transcript raises
\* for an episode, the loop goes on with the episode that follows it in the
\* ledger (so that by the end of the loop the chain of every episode has been
\* entered), and the record of every other episode is what it was.
C11_FailureDoesNotStopLaterEpisodes ==
  /\ [](pc \in AfterLoop => \A g \in LedgerGuids : chain.outcome[g] # "none")
  /\ [][(last'.op \in ChainOps /\ last'.result = "raised") =>
          /\ queue # <<>>
          /\ last'.guid = Head(queue).guid
          /\ queue' = Tail(queue)
          /\ pc' = (IF Tail(queue) = <<>> THEN "embed" ELSE "download")
          /\ \A g \in Guids \ {last'.guid} :
                EpisodeRec(load_manifest', g) = EpisodeRec(load_manifest, g)]_vars

\* the first of two episodes raised and the second one went through its chain
C11_Witness ==
  /\ pc = "embed"
  /\ Len(load_manifest.episodes) = 2
  /\ chain.outcome[load_manifest.episodes[1].guid] = "raised"
  /\ chain.outcome[load_manifest.episodes[2].guid] = "done"
  /\ StatusIn(load_manifest, load_manifest.episodes[2].guid) = "cleaned"

\* ------------------------------------------------------------------ C12
\* episodes whose chain raised in this run and that have no clean path on record
FailedUncleaned ==
  {g \in LedgerGuids : /\ chain.outcome[g] = "raised"
                       /\ CleanPathOf(EpisodeRec(load_manifest, g)) = CurDir}
\* episodes whose clean transcript is on record and on disk
CleanedEpisodes ==
  {g \in LedgerGuids : /\ CleanPathOf(EpisodeRec(load_manifest, g)) # CurDir
                       /\ CleanPathOf(EpisodeRec(load_manifest, g)) \in DOMAIN fs}
CollaboratorFailures == {"embedding model", "render"}

\* C12: in a run where the chain of some episode failed, leaving it without
\* a clean path in the ledger, and another episode is cleaned, neither
\* build_embeddings nor generate_podcast_pdf raises (their collaborators
\* working); the index metadata built in the run has no entry for the failed
\* episode, and the document rendered in the run has no text for it.
C12_PodcastStepsSurviveFailedEpisode ==
  (FailedUncleaned # {} /\ CleanedEpisodes # {}) =>
    /\ (last.op = "process_podcast" /\ last.result = "failed") => last.why \in CollaboratorFailures
    /\ chain.built =>
         \A i \in 1..Len(faiss[1].metas) : faiss[1].metas[i].guid \notin FailedUncleaned
    /\ (pc = "pdf_mark" \/ (last.op = "process_podcast" /\ last.result = "success")) =>
         \A i \in 1..Len(load_manifest.episodes) :
           load_manifest.episodes[i].guid \in FailedUncleaned => pdf[1][i].text = <<>>

\* ------------------------------------------------------------------ C13
\* process_podcast has returned its result to the caller
Returned == pc = "idle" /\ last.op = "process_podcast" /\ last.result \in {"success", "failed"}
RaisedInRun == {g \in LedgerGuids : chain.outcome[g] = "raised"}

\* C13: when process_podcast has returned, every episode whose chain raised
\* in that run has the persisted status it had when its chain raised: the
\* embed and publish steps did not move it to embedded or pdf.
C13_FailedEpisodeKeepsStatus ==
  Returned => \A g \in RaisedInRun : StatusIn(load_manifest, g) = chain.status[g]

\* C13 (amended): when process_podcast has returned, an episode whose chain
\* raised in that run has the status it had when its chain raised, unless the
\* podcast-level steps marked it together with every other episode: it is at
\* pdf when the run returned success, and at embedded when the run rebuilt
\* the index and then failed.
C13_FailedEpisodeMarkedWithTheRest ==
  Returned =>
    \A g \in RaisedInRun :
      StatusIn(load_manifest, g) =
        (IF last.result = "success" THEN "pdf"
         ELSE IF chain.built THEN "embedded"
         ELSE chain.status[g])

\* an episode cleaned in an earlier run fails its download, and is marked pdf
C13_Witness ==
  /\ Returned /\ last.result = "success" /\ chain.built
  /\ \E g \in RaisedInRun : chain.status[g] = "cleaned" /\ StatusIn(load_manifest, g) = "pdf"

\* ------------------------------------------------------------------ C14
\* C14: a download_episode call that fails inside the transfer (a request or
\* transfer error or an undersized file on the last attempt, or a failed
\* final verification) raises to its caller, leaves no .part file and no
\* audio file below MIN_FILE_SIZE, and leaves the ledger file as it was;
\* the last of the MAX_RETRIES attempts ends the call one way or the other.
C14_FailedDownloadCleansUp ==
  /\ [](pc = "dl_attempt" => dl.attempt < MAX_RETRIES)
  /\ [][(pc = "dl_attempt" /\ last'.op = "download_episode") =>
          /\ (dl.attempt = MAX_RETRIES - 1 => last'.result \in {"raised", "committed"})
          /\ (last'.result = "raised" =>
                /\ episode_paths(last'.guid, Title(last'.guid)).audio_part \notin DOMAIN fs'
                /\ (episode_paths(last'.guid, Title(last'.guid)).audio \in DOMAIN fs' =>
                      FileSize(fs', episode_paths(last'.guid, Title(last'.guid)).audio)
                        >= MIN_FILE_SIZE)
                /\ manifest' = manifest
                /\ pc' # "transcribe")]_vars

\* the last attempt wrote part of the body to the .part file and broke off
C14_Witness ==
  /\ last.op = "download_episode" /\ last.result = "raised"
  /\ last.why \in {"transfer broke", "too small"}
  /\ "write_part" \in io
  /\ episode_paths(last.guid, Title(last.guid)).audio_part \notin DOMAIN fs

\* ------------------------------------------------------------------ C15
JobOf(mf, g) == DictGet(EpisodeRec(mf, g), "transcript_id", 0)
TranscriptSaved(g) ==
  \/ episode_done_at_least(load_manifest, g, "transcribed")
  \/ /\ Exists(episode_paths(g, Title(g)).raw)
     /\ Len(fs[episode_paths(g, Title(g)).raw]) > 0

\* C15: a transcribe_episode call for an episode whose record carries a
\* transcript_id and whose transcript is not saved yet goes straight to
\* polling that job: it uploads nothing and submits nothing. A persisted id
\* is never replaced, ids of different episodes differ, and a job is
\* submitted only for an episode that has no persisted id, whose record then
\* takes the id of that job.
C15_PersistedJobIsPolledAgain ==
  /\ [](/\ \A g \in Guids : JobOf(load_manifest, g) \in 0..Len(stt)
        /\ \A g, h \in Guids :
             (g # h /\ JobOf(load_manifest, g) # 0) =>
                JobOf(load_manifest, g) # JobOf(load_manifest, h))
  /\ [][/\ manifest' # manifest =>
             \A g \in Guids :
               JobOf(load_manifest, g) # 0 => JobOf(load_manifest', g) = JobOf(load_manifest, g)
        /\ (/\ pc = "transcribe" /\ last'.op = "transcribe_episode"
            /\ JobOf(load_manifest, Head(queue).guid) # 0
            /\ ~TranscriptSaved(Head(queue).guid)) =>
              /\ last'.result = "resumed"
              /\ pc' = "poll"
              /\ Len(stt') = Len(stt)
              /\ io' \cap {"upload", "submit"} = {}
        /\ Len(stt') # Len(stt) =>
              /\ pc = "transcribe" /\ Len(stt') = Len(stt) + 1
              /\ JobOf(load_manifest, Head(queue).guid) = 0
              /\ JobOf(load_manifest', Head(queue).guid) = Len(stt')]_vars

\* a run was killed while polling; the next run polls the job it finds
C15_Witness ==
  /\ runs = 2 /\ pc = "poll"
  /\ last.op = "transcribe_episode" /\ last.result = "resumed"
  /\ Len(stt) = 1 /\ JobOf(load_manifest, last.guid) = 1

\* ------------------------------------------------------------------ C16
\* what a run that is never interrupted leaves for an episode whose audio is
\* served at url: the files, and the record without its job id
AsUninterrupted(g, url) ==
  /\ Exists(episode_paths(g, Title(g)).audio)
  /\ fs[episode_paths(g, Title(g)).audio] = Source(url)
  /\ Exists(episode_paths(g, Title(g)).raw)
  /\ fs[episode_paths(g, Title(g)).raw] = TranscriptOf(Source(url))
  /\ Exists(episode_paths(g, Title(g)).clean)
  /\ fs[episode_paths(g, Title(g)).clean] = CleanText(TranscriptOf(Source(url)))
  /\ StatusIn(load_manifest, g) = "pdf"
  /\ EpisodeRec(load_manifest, g).files = [clean |-> episode_paths(g, Title(g)).clean]

\* a run that followed a kill has returned success, with no collaborator
\* failing during it
HealthyRerunDone ==
  /\ Returned /\ last.result = "success"
  /\ faults > 0
  /\ ~chain.faulty

\* C16: when a process_podcast run that follows a kill returns success, its
\* collaborators all working, every episode has the files and the record an
\* uninterrupted run gives it: the whole audio, the whole transcript, its
\* cleaned text, status pdf.
C16_RestartGivesUninterruptedResult ==
  HealthyRerunDone =>
    \A i \in 1..Len(load_manifest.episodes) :
      AsUninterrupted(load_manifest.episodes[i].guid, load_manifest.episodes[i].rec.audio_url)

\* ------------------------------------------------------------------ C17
\* the ledger the save in progress at this point of the run is writing
LedgerBeingSaved ==
  CASE pc = "embed_mark" ->
         update_episode_state(load_manifest, Head(markq), [status |-> "embedded"])
    [] pc = "pdf_mark" ->
         update_episode_state(load_manifest, Head(markq), [status |-> "pdf"])
    [] OTHER ->
         update_episode_state(load_manifest, Head(queue).guid,
           [status |-> "cleaned",
            files |-> [clean |-> episode_paths(Head(queue).guid, Head(queue).title).clean]])

\* C17: when the process is killed during save_manifest, the ledger file
\* afterwards holds either the ledger it held before or the ledger that was
\* being saved, whole.
C17_SaveIsAtomic ==
  [][(last'.op = "kill" /\ last'.at = "save_manifest") =>
       (manifest' = manifest \/ manifest' = <<LedgerBeingSaved>>)]_vars

\* ------------------------------------------------------------------ C18
\* C18: in every state the program can leave on disk, kills included,
\* load_manifest returns a ledger: the file, when there is one, parses, no
\* request has failed on loading it, and without a file the result is the
\* empty ledger of the podcast.
C18_LoadNeverFails ==
  /\ ~LoadRaises
  /\ ~(last.op = "process_podcast" /\ last.result = "failed" /\ last.why = "JSONDecodeError")
  /\ ~(last.op = "add_podcasts" /\ "error" \in DOMAIN last)
  /\ manifest = <<>> => load_manifest = [podcast_name |-> Podcast, episodes |-> <<>>]

\* ------------------------------------------------------------------ C19
\* C19: when the text-generation call raises inside
\* single_persona_answer_with_confidence, the function returns a dict with
\* the fixed apology, confidence 0.0 and source "error", whatever confidence
\* the passages gave, and /query_single answers with that apology.
C19_GenerationFailureIsAnswered ==
  (last.op = "query_single" /\ last.inner.llm_raised) =>
    /\ ~last.inner.raised
    /\ last.inner.result.answer = ErrorAnswer
    /\ last.inner.result.confidence = 0
    /\ last.inner.result.source = "error"
    /\ last.response = [answer |-> ErrorAnswer]

\* the passages gave a confidence of at least 0.7 and the generation call failed
C19_Witness ==
  /\ last.op = "query_single" /\ last.inner.llm_raised
  /\ calculate_confidence(last.episodes, last.query) >= 7000
  /\ last.inner.mode = "database"
  /\ last.inner.result.source = "error"

\* ------------------------------------------------------------------ C20
Ended == pc = "idle" /\ last.op = "process_podcast"
ChainRaisedInRun == {g \in Guids : chain.outcome[g] = "raised"}

\* build_embeddings and generate_podcast_pdf returned and the loop that marks
\* the episodes pdf went through every episode of the ledger
Completed ==
  /\ chain.stage = "published" /\ markq = <<>> /\ pdf # <<>>
  /\ ~LoadRaises
  /\ \A g \in LedgerGuids : StatusIn(load_manifest, g) = "pdf"

\* C20: process_podcast never raises: it ends with {success: false, error}
\* whenever anything failed in the run, the chain of an episode included, and
\* with {success: true, pdf} only when embedding, publishing and the marking
\* of the episodes as pdf all completed.
C20_AnyFailureFailsTheCall ==
  Ended =>
    /\ last.result \in {"success", "failed"}
    /\ ChainRaisedInRun # {} => last.result = "failed"
    /\ last.result = "success" => Completed

\* C20 (amended): process_podcast never raises: a failure of the ledger load,
\* of the embedding, of the rendering or of the final marking ends the call
\* with {success: false, error}; a failure in the chain of an episode is
\* caught inside the loop and does not end the call, which goes on and may
\* still succeed; {success: true, pdf} is returned only when embedding,
\* publishing and the marking of the episodes as pdf all completed.
C20_FailuresAreStructured ==
  /\ [](Ended =>
          /\ last.result \in {"success", "failed"}
          /\ last.result = "failed" => "why" \in DOMAIN last
          /\ last.result = "success" => Completed)
  /\ [][(pc = "idle" /\ runs' = runs + 1 /\ LoadRaises) =>
          (Ended' /\ last'.result = "failed")]_vars
  /\ [][(pc \in AfterLoop /\ pc' = "idle" /\ last'.op # "kill" /\ chain'.stage # "published") =>
          (Ended' /\ last'.result = "failed")]_vars
  /\ [][(\E g \in Guids : chain.outcome[g] # "raised" /\ chain'.outcome[g] = "raised") =>
          (pc' \in {"download", "embed"} /\ last'.op # "process_podcast")]_vars

\* the rendering failed in a run in which the chain of an episode had raised
C20_Witness ==
  /\ Ended /\ last.result = "failed" /\ last.why = "render"
  /\ ChainRaisedInRun # {}

\* ------------------------------------------------------------------ C21
\* a word of the question contains one of the ten domain keywords
KeywordInQuery(query) ==
  \E i \in 1..Len(query), keyword \in hospitality_keywords : Within(keyword, Lower(query[i]))

\* at least two passages score above 0.5
TwoAboveHalf(episodes) ==
  \E i, j \in 1..Len(episodes) :
    i # j /\ episodes[i].score > 5000 /\ episodes[j].score > 5000

ConfidenceFormula(episodes, query) ==
  LET top == CHOOSE v \in {episodes[i].score : i \in 1..Len(episodes)} :
               \A i \in 1..Len(episodes) : v >= episodes[i].score
      sum == (IF top < 10000 THEN top ELSE 10000)
             + (IF TwoAboveHalf(episodes) THEN 1000 ELSE 0)
             + (IF KeywordInQuery(query) THEN 500 ELSE 0)
  IN IF sum < 10000 THEN sum ELSE 10000

\* C21: for passages with non-negative scores, calculate_confidence is in
\* [0, 1] and equals min(1, min(max score, 1) + 0.1 when at least two passages
\* score above 0.5 + 0.05 when the question holds a domain keyword); it is 0.0
\* for an empty passage list, keyword or not.
C21_ConfidenceFormula ==
  last.op = "calculate_confidence" =>
    /\ last.before \in 0..10000 /\ last.after \in 0..10000
    /\ last.episodes = <<>> => last.before = 0
    /\ last.episodes # <<>> => last.before = ConfidenceFormula(last.episodes, last.query)
    /\ last.after = ConfidenceFormula(Append(last.episodes, [score |-> last.added]), last.query)

\* both boosts apply to a best score of 0.55 and the sum stays under the cap
C21_Witness ==
  /\ last.op = "calculate_confidence"
  /\ TwoAboveHalf(last.episodes) /\ KeywordInQuery(last.query)
  /\ MaxScore(last.episodes) = 5500
  /\ last.before = 7000

\* ------------------------------------------------------------------ C22
\* C22: single_persona_answer_with_confidence chooses content (database) mode
\* exactly when the confidence it computed is at least 0.7 and creative mode
\* exactly when it is below 0.7; the prompt it sends is the one of that mode,
\* and the source and processing_mode of a result that is not the error
\* result name that mode.
C22_ModeFollowsConfidence ==
  (last.op = "query_single" /\ ~last.inner.raised) =>
    /\ last.inner.mode = "database" <=> calculate_confidence(last.episodes, last.query) >= 7000
    /\ last.inner.mode = "creative" <=> calculate_confidence(last.episodes, last.query) < 7000
    /\ Len(llm) = 1 /\ llm[1].kind = last.inner.mode
    /\ ~last.inner.llm_raised =>
         /\ last.inner.result.confidence = calculate_confidence(last.episodes, last.query)
         /\ last.inner.result.source = last.inner.mode
         /\ last.inner.result.processing_mode =
              (IF last.inner.mode = "database" THEN "content_based" ELSE "creative")

\* a best score of 0.55 reaches exactly 0.7 with both boosts: content mode
C22_Witness ==
  /\ last.op = "query_single" /\ ~last.inner.raised /\ ~last.inner.llm_raised
  /\ last.episodes # <<>> /\ MaxScore(last.episodes) = 5500
  /\ calculate_confidence(last.episodes, last.query) = 7000
  /\ last.inner.result.source = "database"
  /\ last.inner.result.processing_mode = "content_based"

\* ------------------------------------------------------------------ C23
\* the distance the index reported for the vector behind a pooled passage
\* (a passage made from an unfilled result slot has no vector of its own)
DistanceOf(ep) == IF ep.idx < 0 THEN PadDistance ELSE index[ep.podcast].hits[ep.idx + 1]

NearestDistance(podcast) == index[podcast].hits[1]

\* C23: the passages pooled by get_relevant_episodes are ranked by similarity,
\* the index's distance having been converted: the passage at the smallest
\* distance comes first, the others follow by increasing distance, it is
\* among the passages kept, and the best score, on which the confidence is
\* based, is the score of that passage.
C23_NearestPassageRanksFirst ==
  (last.op = "query_single" /\ last.episodes # <<>>) =>
    /\ DistanceOf(last.episodes[1]) = NearestDistance(last.podcast)
    /\ \A i \in 1..(Len(last.episodes) - 1) :
         DistanceOf(last.episodes[i]) <= DistanceOf(last.episodes[i + 1])
    /\ \E i \in 1..Len(last.episodes) : last.episodes[i].idx = 0
    /\ \A i \in 1..Len(last.episodes) :
         last.episodes[i].score = MaxScore(last.episodes) =>
           DistanceOf(last.episodes[i]) = NearestDistance(last.podcast)

\* ------------------------------------------------------------------ C24
AllEmbedded == \A g \in LedgerGuids : episode_done_at_least(load_manifest, g, "embedded")

\* the episodes of the ledger whose cleaned transcript is on disk, in ledger order
AvailableCleaned ==
  SelectSeq(GuidsOf(load_manifest), LAMBDA g : Exists(episode_paths(g, Title(g)).clean))

\* the index holds one vector per available cleaned transcript, in ledger order
RebuiltFrom(ix, gs, f) ==
  /\ Len(ix) = 1
  /\ Len(ix[1].vectors) = Len(gs) /\ Len(ix[1].metas) = Len(gs)
  /\ \A i \in 1..Len(gs) :
       /\ ix[1].metas[i].guid = gs[i]
       /\ ix[1].vectors[i] = f[episode_paths(gs[i], Title(gs[i])).clean]

\* C24: build_embeddings takes its skip branch exactly when every episode of
\* the ledger has reached embedded; in every other case, whether or not any
\* cleaned transcript is on disk, it rebuilds the index from the
\* cleaned transcripts that are on disk (unless the embedding model itself
\* fails) and, once it has returned, every episode is at least embedded.
C24_EmbedSkipsOrRebuildsAll ==
  /\ [](pc = "pdf" => AllEmbedded)
  /\ [][pc = "embed" =>
          /\ (last'.op = "build_embeddings" /\ last'.result = "skipped") <=> AllEmbedded
          /\ (~AllEmbedded /\ ~(last'.result = "failed" /\ last'.why = "embedding model")) =>
               /\ pc' = "embed_mark"
               /\ RebuiltFrom(faiss', AvailableCleaned, fs)]_vars

\* ------------------------------------------------------------------ C25
\* C25: when every episode of the ledger has already reached embedded,
\* build_embeddings leaves the index file, its metadata file and the ledger
\* as they are, loads no model and computes no embedding.
C25_EmbedSkipChangesNothing ==
  [][(pc = "embed" /\ AllEmbedded) =>
        /\ last'.op = "build_embeddings"
        /\ faiss' = faiss /\ manifest' = manifest /\ fs' = fs
        /\ io' \cap {"load_model", "encode", "write_index"} = {}
        /\ pc' = "pdf"]_vars

\* the second run over a ledger whose episodes were all embedded by the first
C25_Witness ==
  /\ runs = 2 /\ pc = "pdf"
  /\ last.op = "build_embeddings" /\ last.result = "skipped"
  /\ LedgerGuids # {} /\ faiss # <<>>
  /\ io = {}

\* ------------------------------------------------------------------ C26
\* the audio URL is empty or starts with neither http:// nor https://
NotHttp(url) == url = <<>> \/ (url[1] # "http://" /\ url[1] # "https://")

\* C26: download_episode for an episode that is not validly downloaded and
\* whose audio URL is empty or not http(s) raises at once: it makes no
\* request and no attempt, creates and removes no file, and leaves the
\* ledger as it is.
C26_BadUrlFailsFast ==
  [][(/\ pc = "download"
      /\ ~DownloadSkips(load_manifest, fs, Head(queue).guid, Head(queue).title)
      /\ NotHttp(Head(queue).url)) =>
        /\ last'.op = "download_episode" /\ last'.guid = Head(queue).guid
        /\ last'.result = "raised"
        /\ io' = {}
        /\ pc' # "dl_attempt" /\ dl' = dl
        /\ fs' = fs
        /\ manifest' = manifest]_vars

\* an ftp:// URL is refused
C26_Witness ==
  /\ last.op = "download_episode" /\ last.result = "raised"
  /\ EpisodeRec(load_manifest, last.guid).audio_url = UrlFtp
  /\ chain.outcome[last.guid] = "raised"
  /\ fs = <<>> /\ dl = <<>>

\* ------------------------------------------------------------------ C27
FreshFields == {"title", "audio_url", "publish_date", "status"}

\* C27: add_podcasts removes no episode record and changes no field of a
\* record that exists; ingesting a feed, the same one again included, leaves
\* the records there are as they are, in their order, and adds records only
\* for guids that had none, each with an empty status and no artifact.
C27_IngestKeepsRecords ==
  [][(last'.op = "add_podcasts" /\ ~LoadRaises) =>
        /\ ~LoadRaises'
        /\ IsPrefix(GuidsOf(load_manifest), GuidsOf(load_manifest'))
        /\ \A i \in 1..Len(load_manifest.episodes) :
             load_manifest'.episodes[i] = load_manifest.episodes[i]
        /\ \A i \in (Len(load_manifest.episodes) + 1)..Len(load_manifest'.episodes) :
             /\ DOMAIN load_manifest'.episodes[i].rec = FreshFields
             /\ load_manifest'.episodes[i].rec.status = ""
             /\ \A j \in 1..(i - 1) :
                  load_manifest'.episodes[j].guid # load_manifest'.episodes[i].guid]_vars

\* a feed of two episodes is ingested after the first one went through the
\* whole pipeline: its record is kept and the second gets a fresh one
C27_Witness ==
  /\ last.op = "add_podcasts" /\ last.episodes = 2
  /\ GuidsOf(load_manifest) = <<G1, G2>>
  /\ StatusIn(load_manifest, G1) = "pdf" /\ "files" \in DOMAIN EpisodeRec(load_manifest, G1)
  /\ StatusIn(load_manifest, G2) = "" /\ DOMAIN EpisodeRec(load_manifest, G2) = FreshFields

\* ------------------------------------------------------------------ C28
\* the job recorded for g has been reported as failed by the service (a
\* failed job reports its error at every later poll)
JobFailed(g) ==
  /\ JobOf(load_manifest, g) # 0
  /\ stt[JobOf(load_manifest, g)].state = "error"

\* C28: after the service has reported a terminal error for the job of an
\* episode, the episode stays at downloaded, and a later transcribe_episode
\* call for it can reach transcribed: the call does not go back to polling
\* the failed job, whose only answer is the same error.
C28_FailedJobDoesNotBlockRetry ==
  /\ \A g \in Guids : (JobFailed(g) /\ ~TranscriptSaved(g)) => StatusIn(load_manifest, g) = "downloaded"
  /\ pc = "poll" => ~JobFailed(Head(queue).guid)

\* ------------------------------------------- the polling loop alone
\* what one poll can bring: the job is still queued or processing, the
\* request fails, the job is completed with or without text, or has failed
PollOutcomes == {"pending", "network", "completed", "empty", "error"}

PollLoopAt(poll_count, polls, ended) ==
  [op |-> "poll_loop", poll_count |-> poll_count, polls |-> polls, ended |-> ended]

PollOnceLate(st, outcome) ==
  CASE outcome = "completed" -> PollLoopAt(st.poll_count, st.polls + 1, "returned")
    [] outcome \in {"empty", "error"} -> PollLoopAt(st.poll_count, st.polls + 1, "raised")
    [] outcome = "pending" ->
         PollLoopAt(st.poll_count + 1, st.polls + 1,
                    IF st.poll_count + 1 > POLL_LIMIT + 5 THEN "raised" ELSE "no")
    [] OTHER ->
         IF st.poll_count > NETWORK_ERROR_LIMIT
         THEN PollLoopAt(st.poll_count, st.polls + 1, "raised")
         ELSE PollLoopAt(st.poll_count + 1, st.polls + 1, "no")

\* one pass of "while True:" in transcribe_episode
PollOnce(st, outcome) ==
  CASE outcome = "completed" -> PollLoopAt(st.poll_count, st.polls + 1, "returned")
    [] outcome \in {"empty", "error"} -> PollLoopAt(st.poll_count, st.polls + 1, "raised")
    [] outcome = "pending" ->
         PollLoopAt(st.poll_count + 1, st.polls + 1,
                    IF st.poll_count + 1 > POLL_LIMIT THEN "raised" ELSE "no")
    [] OTHER ->
         IF st.poll_count > NETWORK_ERROR_LIMIT
         THEN PollLoopAt(st.poll_count, st.polls + 1, "raised")
         ELSE PollLoopAt(st.poll_count + 1, st.polls + 1, "no")

\* the loop is entered with poll_count = 0
PollLoopStart ==
  /\ QueryIdle
  /\ last' = PollLoopAt(0, 0, "no")
  /\ UNCHANGED pvars

PollLoopStep ==
  /\ last.op = "poll_loop" /\ last.ended = "no"
  /\ \E outcome \in PollOutcomes : last' = PollOnce(last, outcome)
  /\ UNCHANGED pvars

NextPoll ==
  \/ PollLoopStart
  \/ PollLoopStep

\* the loop keeps running while it has not returned or raised
SpecPoll == Init /\ [][NextPoll]_vars /\ WF_vars(NextPoll)

\* ------------------------------------------------------------------ C29
\* C29: the polling loop of transcribe_episode ends for every sequence of
\* poll outcomes: it returns the transcript or raises, and it has made at
\* most 361 polls by then (none after the 361st).
C29_PollingTerminates ==
  /\ <>(last.op = "poll_loop" /\ last.ended \in {"returned", "raised"})
  /\ [](last.op = "poll_loop" => last.polls <= POLL_LIMIT + 1)

\* the job is still processing at the 361st poll and the loop gives up
C29_Witness ==
  /\ last.op = "poll_loop" /\ last.ended = "raised"
  /\ last.polls = POLL_LIMIT + 1 /\ last.poll_count = POLL_LIMIT + 1

\* ------------------------------------------------------------------ C30
\* how an attempt of the retry loop fails: the request or the transfer
\* raises, or the .part file is below MIN_FILE_SIZE
AttemptErrors == {"request failed", "transfer broke", "too small"}

\* C30: a download_episode call makes at most MAX_RETRIES transfer attempts;
\* an attempt that fails with a request, OS or size error is followed by
\* another attempt exactly when it was not the last one, and when the last
\* one fails the call raises, the ledger is not written and the episode does
\* not go on to transcription.
C30_RetriesAreBounded ==
  [][(pc = "dl_attempt" /\ last'.op = "download_episode") =>
        /\ dl.attempt + 1 <= MAX_RETRIES
        /\ last'.result = "retry" =>
             (pc' = "dl_attempt" /\ dl'.attempt = dl.attempt + 1 /\ dl'.attempt + 1 <= MAX_RETRIES)
        /\ (last'.result \in {"retry", "raised"} /\ last'.why \in AttemptErrors) =>
             IF dl.attempt + 1 < MAX_RETRIES
             THEN last'.result = "retry" /\ manifest' = manifest
             ELSE /\ last'.result = "raised"
                  /\ manifest' = manifest
                  /\ StatusIn(load_manifest', last'.guid) = StatusIn(load_manifest, last'.guid)
                  /\ pc' \in {"download", "embed"}
                  /\ chain'.outcome[last'.guid] = "raised"]_vars

\* three requests failed in a row for an episode that was never downloaded
C30_Witness ==
  /\ last.op = "download_episode" /\ last.result = "raised" /\ last.why = "request failed"
  /\ io = {"http_get"}
  /\ StatusIn(load_manifest, last.guid) = ""
  /\ chain.outcome[last.guid] = "raised"

\* ------------------------------------------------------------------ C31
\* C31: when build_embeddings has written an index, the metadata list holds
\* exactly one entry per episode of the ledger whose cleaned transcript is on
\* disk, in ledger order; entry i holds the guid and the title of the episode
\* whose transcript is vector i, and the index has as many vectors as the
\* list has entries.
C31_MetadataParallelToIndex ==
  [][(last'.op = "build_embeddings" /\ last'.result = "built") =>
        /\ Len(faiss') = 1
        /\ Len(faiss'[1].metas) = Len(AvailableCleaned)
        /\ Len(faiss'[1].vectors) = Len(faiss'[1].metas)
        /\ \A i \in 1..Len(AvailableCleaned) :
             /\ faiss'[1].metas[i].guid = AvailableCleaned[i]
             /\ faiss'[1].metas[i].title = EpisodeRec(load_manifest, AvailableCleaned[i]).title
             /\ faiss'[1].vectors[i] =
                  fs[episode_paths(AvailableCleaned[i], Title(AvailableCleaned[i])).clean]]_vars

\* the ledger holds two episodes and the cleaned transcript of the first is
\* gone: the index holds the second alone
C31_Witness ==
  /\ last.op = "build_embeddings" /\ last.result = "built"
  /\ GuidsOf(load_manifest) = <<G1, G2>>
  /\ ~Exists(episode_paths(G1, Title(G1)).clean)
  /\ Len(faiss[1].metas) = 1 /\ faiss[1].metas[1].guid = G2

\* ------------------------------------------------------------------ C32
\* the ledger a manifest file (or its absence) is loaded as
LoadedFrom(file) == IF file # <<>> THEN file[1] ELSE [podcast_name |-> Podcast, episodes |-> <<>>]

\* C32: update_episode_state(guid, fields) changes only the named top-level
\* fields of the record of guid: the other fields of that record and the
\* records of the other episodes are what they were, and a guid that had no
\* record gets one that holds exactly the given fields.
C32_UpdateTouchesNamedFieldsOnly ==
  last.op = "update_episode_state" =>
    /\ \A h \in Guids \ {last.guid} :
         /\ (EpisodeAt(load_manifest, h) = 0) <=> (EpisodeAt(LoadedFrom(last.before), h) = 0)
         /\ EpisodeRec(load_manifest, h) = EpisodeRec(LoadedFrom(last.before), h)
    /\ load_manifest.podcast_name = LoadedFrom(last.before).podcast_name
    /\ EpisodeAt(load_manifest, last.guid) # 0
    /\ DOMAIN EpisodeRec(load_manifest, last.guid) =
         (DOMAIN EpisodeRec(LoadedFrom(last.before), last.guid)) \cup (DOMAIN last.kwargs)
    /\ \A k \in DOMAIN EpisodeRec(load_manifest, last.guid) :
         EpisodeRec(load_manifest, last.guid)[k] =
           IF k \in DOMAIN last.kwargs THEN last.kwargs[k]
           ELSE EpisodeRec(LoadedFrom(last.before), last.guid)[k]
    /\ EpisodeAt(LoadedFrom(last.before), last.guid) = 0 =>
         EpisodeRec(load_manifest, last.guid) = last.kwargs

\* the second episode has no record yet, the first has one with a title and
\* a status: the update adds a record of the given fields after it
C32_Witness ==
  /\ last.op = "update_episode_state" /\ last.guid = G2
  /\ EpisodeAt(LoadedFrom(last.before), G2) = 0
  /\ GuidsOf(load_manifest) = <<G1, G2>>
  /\ EpisodeRec(load_manifest, G1) = [title |-> Title(G1), status |-> "cleaned"]
  /\ EpisodeRec(load_manifest, G2) = [transcript_id |-> 1]

\* ------------------------------------------------------------------ C33
FilesOf(mf, g) == DictGet(EpisodeRec(mf, g), "files", EmptyDict)

StageKey(op) ==
  CASE op = "download_episode" -> "audio" [] op = "transcribe_episode" -> "raw" [] OTHER -> "clean"

\* C33: the map of artifact paths of a record accumulates: when a stage has
\* succeeded for an episode the map holds the path of that stage's artifact
\* and still holds, unchanged, every path it held before (so that after
\* clean it holds audio, raw and clean).
C33_ArtifactMapAccumulates ==
  [][(last'.op \in ChainOps /\ last'.result \in {"committed", "adopted"}) =>
        /\ StageKey(last'.op) \in DOMAIN FilesOf(load_manifest', last'.guid)
        /\ \A k \in DOMAIN FilesOf(load_manifest, last'.guid) :
             /\ k \in DOMAIN FilesOf(load_manifest', last'.guid)
             /\ k # StageKey(last'.op) =>
                  FilesOf(load_manifest', last'.guid)[k] = FilesOf(load_manifest, last'.guid)[k]]_vars

\* ------------------------------------------------------------------ C34
\* two invocations of update_episode_state on the same podcast, each a load
\* of the file followed by a save of the merged copy; nothing locks the file
Writers == {"w1", "w2"}

WriterGuid(w) == IF w = "w1" THEN G1 ELSE G2

InitRace ==
  /\ Idle
  /\ \E present \in SUBSET Guids, r1, r2 \in LedgerRecs :
       /\ (G1 \notin present => r1 = EmptyDict)
       /\ (G2 \notin present => r2 = EmptyDict)
       /\ manifest = IF present = {} THEN <<>> ELSE <<LedgerOf(present, r1, r2)>>
  /\ last = [op |-> "race",
             at |-> [w \in Writers |-> "start"],
             m |-> [w \in Writers |-> [podcast_name |-> Podcast, episodes |-> <<>>]],
             kwargs |-> [w \in Writers |-> EmptyDict],
             log |-> <<>>]

\* m = load_manifest(podcast)
WriterLoad(w, kw) ==
  /\ last.at[w] = "start"
  /\ last' = [last EXCEPT !.at[w] = "loaded", !.m[w] = load_manifest,
                          !.kwargs[w] = kw, !.log = Append(@, <<w, "load">>)]
  /\ UNCHANGED pvars

\* epi.update(kwargs); m["episodes"][guid] = epi; save_manifest(podcast, m)
WriterSave(w) ==
  /\ last.at[w] = "loaded"
  /\ Save(update_episode_state(last.m[w], WriterGuid(w), last.kwargs[w]))
  /\ last' = [last EXCEPT !.at[w] = "saved", !.log = Append(@, <<w, "save">>)]
  /\ UNCHANGED <<fs, faiss, pdf, stt, pc, queue, dl, markq, runs, faults, io,
                 healthy, index, llm, chain>>

NextRace ==
  \E w \in Writers :
    \/ \E kw \in UpdateArgs : WriterLoad(w, kw)
    \/ WriterSave(w)

SpecRace == InitRace /\ [][NextRace]_vars

\* the update of writer w is in the persisted ledger
Reflected(w) ==
  /\ EpisodeAt(load_manifest, WriterGuid(w)) # 0
  /\ \A k \in DOMAIN last.kwargs[w] :
       /\ k \in DOMAIN EpisodeRec(load_manifest, WriterGuid(w))
       /\ EpisodeRec(load_manifest, WriterGuid(w))[k] = last.kwargs[w][k]

BothSaved == last.op = "race" /\ \A w \in Writers : last.at[w] = "saved"

\* one writer at a time: the writer that loads first also saves before the other loads
OneAtATime == last.log[1][1] = last.log[2][1]

LastSaver == last.log[4][1]

\* C34: when the two invocations run one at a time, both updates are in
\* the persisted ledger; when their loads and saves interleave, the later save
\* wins: its update is there and the record of the other episode is what the
\* later saver had loaded, so the earlier update is not part of it
C34_LastWriteWins ==
  BothSaved =>
    /\ OneAtATime => \A w \in Writers : Reflected(w)
    /\ ~OneAtATime =>
         /\ Reflected(LastSaver)
         /\ \A w \in Writers \ {LastSaver} :
              EpisodeRec(load_manifest, WriterGuid(w)) = EpisodeRec(last.m[LastSaver], WriterGuid(w))

\* both loaded the empty ledger, w1 saved first, w2 saved last: the record of
\* G1 is gone from the file
C34_Witness ==
  /\ BothSaved /\ ~OneAtATime /\ LastSaver = "w2"
  /\ ~Reflected("w1") /\ Reflected("w2")
  /\ EpisodeAt(load_manifest, G1) = 0

\* ------------------------------------------------------------------ C35
\* q2 is a query of another scenario type that retrieves the passages of the
\* last query and agrees with it on the presence of a domain keyword
SameEvidence(q2) ==
  /\ detect_scenario_type(q2) # detect_scenario_type(last.query)
  /\ HasHospitalityKeyword(q2) <=> HasHospitalityKeyword(last.query)
  /\ get_relevant_episodes(index, <<last.podcast>>, q2, 3) = last.episodes

OtherAnswer(q2) ==
  single_persona_answer_with_confidence(index, last.podcast, q2, ~last.inner.llm_raised)

\* C35: a query of another scenario type with the same passages and the
\* same keyword presence gets the same mode and the same confidence; the two
\* prompts differ in the scenario type alone
C35_ScenarioLeavesTheGateAlone ==
  last.op = "query_single" =>
    \A q2 \in Queries :
      SameEvidence(q2) =>
        /\ OtherAnswer(q2).raised = last.inner.raised
        /\ OtherAnswer(q2).mode = last.inner.mode
        /\ ~last.inner.raised =>
             /\ OtherAnswer(q2).result.confidence = last.inner.result.confidence
             /\ OtherAnswer(q2).calls =
                  <<[last.inner.calls[1] EXCEPT !.scenario = detect_scenario_type(q2)]>>
             /\ OtherAnswer(q2).calls # last.inner.calls

C35_Witness ==
  /\ last.op = "query_single" /\ last.query = WhichHotels
  /\ ~last.inner.raised /\ ~last.inner.llm_raised
  /\ SameEvidence(Trends2022) /\ SameEvidence(AdviceStaff)
  /\ last.episodes # <<>>
  /\ last.inner.mode = "database" /\ OtherAnswer(Trends2022).mode = "database"
  /\ last.inner.result.confidence = 7000

\* ------------------------------------------------------------------ C36
\* C36: a download is recorded only when a transfer of that call ran to
\* its end and passed the size test on the .part file; the audio file that is
\* recorded is the whole body of the source, never what an earlier call left
C36_CommitFollowsCompleteTransfer ==
  (last.op = "download_episode" /\ last.result = "committed") =>
    /\ last.mode \in {"ab", "wb"}
    /\ \E i \in 1..Len(load_manifest.episodes) :
         LET ep == load_manifest.episodes[i]
         IN /\ ep.guid = last.guid
            /\ fs[episode_paths(ep.guid, ep.rec.title).audio] = Source(ep.rec.audio_url)

\* ------------------------------------------------------------------ C37
\* C37: an answer given in the creative mode, opening with the sentence
\* its prompt requires, contains one of the phrases should_skip_synthesis
\* looks for
C37_RequiredOpeningIsRecognised ==
  (/\ last.op = "query_single" /\ ~last.inner.raised /\ ~last.inner.llm_raised
   /\ last.inner.mode = "creative"
   /\ IsPrefix(clean_text_output(RequiredOpening(last.inner.result.scenario_type)),
               last.inner.result.answer))
  => \E ind \in creative_indicators : Contains(LowerText(last.inner.result.answer), ind)

\* ------------------------------------------------------------------ C38
\* C38: every passage a search returns stands for a vector of the index:
\* its ordinal is one of the index, and no two passages of one podcast share
\* an ordinal or a transcript
C38_ResultsAreIndexedVectors ==
  last.op = "query_single" =>
    LET hits == search(index, last.podcast, 3)
    IN /\ \A i \in 1..Len(hits) :
            hits[i].idx >= 0 /\ hits[i].idx < Len(index[last.podcast].hits)
       /\ \A i, j \in 1..Len(hits) : i # j => hits[i].title # hits[j].title
       /\ \A i \in 1..Len(last.episodes) : last.episodes[i].idx >= 0

\* ------------------------------------------------------------------ C39
\* between two runs the raw transcript of g disappears from the data
\* directory (a cleanup of the directory after a run that was killed)
LoseRaw(g) ==
  /\ pc = "idle"
  /\ last.op = "kill"
  /\ faults <= MaxFaults
  /\ Exists(episode_paths(g, Title(g)).raw)
  /\ fs' = Unlink(fs, episode_paths(g, Title(g)).raw)
  /\ faults' = faults + 1
  /\ healthy' = FALSE
  /\ io' = {}
  /\ last' = [op |-> "lose_raw", guid |-> g]
  /\ chain' = ChainFresh
  /\ UNCHANGED <<index, llm, manifest, faiss, pdf, stt, pc, queue, dl, markq, runs, hist>>

NextRawLoss ==
  \/ NextRuns
  \/ Kill
  \/ \E g \in Guids : LoseRaw(g)

SpecRawLoss == Init /\ [][NextRawLoss]_vars

\* C39: clean_transcript records the status cleaned only for an episode
\* whose raw transcript file exists
C39_CleanedOnlyFromRaw ==
  (last.op = "clean_transcript" /\ last.result = "committed") =>
    Exists(episode_paths(last.guid, Title(last.guid)).raw)

\* ------------------------------------------------------------------ C40
\* guids as feeds carry them: short strings over letters, digits and the
\* punctuation of URLs
MaxGuidLen == 3
GuidChars == {"e", "_", "/"}
FeedGuids == UNION {[1..k -> GuidChars] : k \in 1..MaxGuidLen}

\* a stage asks for the paths of the episode with guid g
PathsOfOne(g) ==
  /\ last.op = "init"
  /\ last' = [op |-> "episode_paths_first", a |-> g, pa |-> episode_paths(g, Title(G1))]
  /\ UNCHANGED pvars

\* and then for those of another episode of the podcast, with guid h
PathsOfTwo(h) ==
  /\ last.op = "episode_paths_first"
  /\ last' = [op |-> "episode_paths", a |-> last.a, b |-> h,
              pa |-> last.pa, pb |-> episode_paths(h, Title(G2))]
  /\ UNCHANGED pvars

NextPaths ==
  \E g \in FeedGuids :
    \/ PathsOfOne(g)
    \/ PathsOfTwo(g)

SpecPaths == Init /\ [][NextPaths]_vars

\* C40: two episodes with different guids share no artifact path
C40_DistinctGuidsDistinctPaths ==
  (last.op = "episode_paths" /\ last.a # last.b) =>
    /\ last.pa.audio # last.pb.audio
    /\ last.pa.audio_part # last.pb.audio_part
    /\ last.pa.raw # last.pb.raw
    /\ last.pa.clean # last.pb.clean

====
